---------------------------- MODULE Spec2Model ----------------------------
(***************************************************************************)
(* Geometric kernel of the box editor: the rotation algebra of             *)
(* core/rotation (boxVisualCenter, cornerFromVisualCenter,                 *)
(* rotatePositionAroundAxis, addRotationOnAxis, applyEulerToVec), the      *)
(* ROTATE_SELECTED case of the project reducer, and the face-edge cut      *)
(* engine buildCutterProps.                                                *)
(*                                                                         *)
(* Number representation.  The program computes in IEEE doubles; the       *)
(* model computes in exact integers:                                       *)
(*   - an angle in radians is held in units of pi/180 (so pi/2 is 90);     *)
(*   - Math.cos / Math.sin are the 3-decimal fixed-point values Cos / Sin  *)
(*     (scaled by TrigScale); they are exact at multiples of 90;           *)
(*   - lengths are integers on a grid fine enough that every halving and   *)
(*     every product with a fixed-point cosine the code performs is exact  *)
(*     (the invariants ExactRotate and ExactCut state this);               *)
(*   - the half-angle values of the quaternion code (cos 45 = sqrt(2)/2)   *)
(*     are exact numbers (a + b*sqrt(2)) / 2^k.                            *)
(***************************************************************************)
EXTENDS Integers, Sequences, FiniteSets, TLC

VARIABLES
    boxes,      \* the active box collection: a sequence of Box records
    steps,       \* number of reducer actions dispatched so far (bounded)
    last,       \* what the last dispatched action did (history variable)
    rotSet,     \* the one set of boxes every rotation so far has rotated, if any
    boxes0,     \* the box collection at the start (history variable)
    algIn,      \* inputs of the rotation-algebra functions
    algOut,     \* their results
    cutIn,      \* inputs of buildCutterProps: dimensions and cut
    cutOut,     \* its result
    mode,               \* "project" or "component-builder"
    currentTemplate,    \* <<>> for null, else <<the boxes of the template>>
    history,            \* the undo history: a sequence of box collections
    historyIndex,       \* the index into history, counted from 0 as in the code
    historyBatchAnchor, \* <<>> for null, else <<the boxes when the batch began>>
    fileBoxes,  \* data.project.boxes of the project file the MCP tools edit
    selectedBoxIds,     \* the selection: a sequence of box ids
    isDragging,         \* Box3D: whether a drag is in progress
    dragBoxId,          \* the box whose Box3D holds the drag
    dragStartPositions, \* Box3D: the positions at pointer down, by box id
    dragView,           \* Box3D: the axis the drag plane keeps fixed
    pointerRefs,        \* Box3D: didDrag, wasMultiSelected, pointerDownShift
    isMeasuring,        \* AppContent: measure mode
    isWallMode,         \* AppContent: wall mode
    isMiterMode,        \* AppContent: miter mode
    wallTargetFace      \* AppContent: <<>> for null, else <<the source box id>>

\* the state of the undo history and of the project file
\* the state of the viewport and of AppContent
uiVars == <<isDragging, dragBoxId, dragStartPositions, dragView, pointerRefs,
            isMeasuring, isWallMode, isMiterMode, wallTargetFace>>

editVars == <<mode, currentTemplate, history, historyIndex, historyBatchAnchor,
              fileBoxes, selectedBoxIds, uiVars>>

vars == <<boxes, steps, last, rotSet, boxes0, algIn, algOut, cutIn, cutOut,
          mode, currentTemplate, history, historyIndex, historyBatchAnchor,
          fileBoxes, selectedBoxIds, isDragging, dragBoxId, dragStartPositions,
          dragView, pointerRefs, isMeasuring, isWallMode, isMiterMode,
          wallTargetFace>>

\* the store as the ProjectProvider creates it, and an empty project file
\* no drag in progress, no interaction mode on
InitUi ==
    /\ isDragging = FALSE /\ dragBoxId = 0 /\ dragStartPositions = <<>>
    /\ dragView = "y"
    /\ pointerRefs = [didDrag |-> FALSE, wasMultiSelected |-> FALSE,
                      pointerDownShift |-> FALSE]
    /\ isMeasuring = FALSE /\ isWallMode = FALSE /\ isMiterMode = FALSE
    /\ wallTargetFace = <<>>

InitEdit ==
    /\ mode = "project" /\ currentTemplate = <<>>
    /\ history = <<<<>>>> /\ historyIndex = 0 /\ historyBatchAnchor = <<>>
    /\ fileBoxes = <<>>
    /\ selectedBoxIds = <<>>
    /\ InitUi

-----------------------------------------------------------------------------
(* Bounds of the model *)

MaxSteps == 2     \* reducer actions per behaviour
MaxDim == 2       \* box dimensions range over 1..MaxDim grid cells
MaxCoord == 1     \* box corner coordinates range over -MaxCoord..MaxCoord cells

-----------------------------------------------------------------------------
(* Numbers *)

TrigScale == 1000

Axes == {"x", "y", "z"}

Vec(a, b, c) == [x |-> a, y |-> b, z |-> c]

Abs(n) == IF n < 0 THEN -n ELSE n

Max2(a, b) == IF a >= b THEN a ELSE b

Min2(a, b) == IF a <= b THEN a ELSE b

\* sin of 0, 1, 2, 15, 30, 45, 60, 75, 88, 89 and 90 degrees to three decimals
SinTable ==
    [a \in {0, 1, 2, 15, 30, 45, 60, 75, 88, 89, 90} |->
        CASE a = 0 -> 0
          [] a = 1 -> 17
          [] a = 2 -> 35
          [] a = 15 -> 259
          [] a = 30 -> 500
          [] a = 45 -> 707
          [] a = 60 -> 866
          [] a = 75 -> 966
          [] a = 88 -> 999
          [] a = 89 -> 1000
          [] a = 90 -> 1000]

\* Math.sin of an angle of a*pi/180 radians, times TrigScale
Sin(a) ==
    LET r == a % 360
    IN  IF r <= 90 THEN SinTable[r]
        ELSE IF r <= 180 THEN SinTable[180 - r]
        ELSE IF r <= 270 THEN -SinTable[r - 180]
        ELSE -SinTable[360 - r]

\* Math.cos of an angle of a*pi/180 radians, times TrigScale
Cos(a) == Sin(a + 90)

\* x * c for a fixed-point c (a product with a Math.cos or Math.sin value)
Mul(x, c) == (x * c) \div TrigScale

\* whether Mul(x, c) loses nothing
ExactMul(x, c) == (x * c) % TrigScale = 0

-----------------------------------------------------------------------------
(* core/rotation: Euler rotations of vectors and points *)

ZERO_ROTATION == Vec(0, 0, 0)

\* a mutant of applyEulerToVec: the Y rotation turns the other way
applyEulerToVec_YFlipped(v, rot) ==
    LET x1 == IF rot.z # 0 THEN Mul(v.x, Cos(rot.z)) - Mul(v.y, Sin(rot.z)) ELSE v.x
        y1 == IF rot.z # 0 THEN Mul(v.x, Sin(rot.z)) + Mul(v.y, Cos(rot.z)) ELSE v.y
        z1 == v.z
        x2 == IF rot.y # 0 THEN Mul(x1, Cos(rot.y)) - Mul(z1, Sin(rot.y)) ELSE x1
        y2 == y1
        z2 == IF rot.y # 0 THEN Mul(x1, Sin(rot.y)) + Mul(z1, Cos(rot.y)) ELSE z1
        x3 == x2
        y3 == IF rot.x # 0 THEN Mul(y2, Cos(rot.x)) - Mul(z2, Sin(rot.x)) ELSE y2
        z3 == IF rot.x # 0 THEN Mul(y2, Sin(rot.x)) + Mul(z2, Cos(rot.x)) ELSE z2
    IN  Vec(x3, y3, z3)

\* applyEulerToVec(v, rot): rotate about Z first, then Y, then X
applyEulerToVec(v, rot) ==
    LET x1 == IF rot.z # 0 THEN Mul(v.x, Cos(rot.z)) - Mul(v.y, Sin(rot.z)) ELSE v.x
        y1 == IF rot.z # 0 THEN Mul(v.x, Sin(rot.z)) + Mul(v.y, Cos(rot.z)) ELSE v.y
        z1 == v.z
        x2 == IF rot.y # 0 THEN Mul(x1, Cos(rot.y)) + Mul(z1, Sin(rot.y)) ELSE x1
        y2 == y1
        z2 == IF rot.y # 0 THEN -Mul(x1, Sin(rot.y)) + Mul(z1, Cos(rot.y)) ELSE z1
        x3 == x2
        y3 == IF rot.x # 0 THEN Mul(y2, Cos(rot.x)) - Mul(z2, Sin(rot.x)) ELSE y2
        z3 == IF rot.x # 0 THEN Mul(y2, Sin(rot.x)) + Mul(z2, Cos(rot.x)) ELSE z2
    IN  Vec(x3, y3, z3)

\* halfDims of boxVisualCenter and cornerFromVisualCenter
halfDims(dimensions) ==
    Vec(dimensions.width \div 2, dimensions.height \div 2, dimensions.depth \div 2)

\* boxVisualCenter(position, dimensions, rotation)
boxVisualCenter(position, dimensions, rotation) ==
    LET rotated == applyEulerToVec(halfDims(dimensions), rotation)
    IN  Vec(position.x + rotated.x, position.y + rotated.y, position.z + rotated.z)

\* a mutant of cornerFromVisualCenter: the half-dimensions are not rotated
cornerFromVisualCenter_Unrotated(visualCenter, dimensions, rotation) ==
    LET rotated == halfDims(dimensions)
    IN  Vec(visualCenter.x - rotated.x, visualCenter.y - rotated.y,
            visualCenter.z - rotated.z)

\* cornerFromVisualCenter(visualCenter, dimensions, rotation)
cornerFromVisualCenter(visualCenter, dimensions, rotation) ==
    LET rotated == applyEulerToVec(halfDims(dimensions), rotation)
    IN  Vec(visualCenter.x - rotated.x, visualCenter.y - rotated.y,
            visualCenter.z - rotated.z)

\* a mutant of rotatePositionAroundAxis: the Y rotation turns the other way
rotatePositionAroundAxis_YFlipped(pos, center, axis, angle) ==
    LET cos == Cos(angle)
        sin == Sin(angle)
        dx == pos.x - center.x
        dy == pos.y - center.y
        dz == pos.z - center.z
    IN  IF axis = "y"
        THEN Vec(center.x + Mul(dx, cos) - Mul(dz, sin),
                 pos.y,
                 center.z + Mul(dx, sin) + Mul(dz, cos))
        ELSE IF axis = "x"
        THEN Vec(pos.x,
                 center.y + Mul(dy, cos) - Mul(dz, sin),
                 center.z + Mul(dy, sin) + Mul(dz, cos))
        ELSE Vec(center.x + Mul(dx, cos) - Mul(dy, sin),
                 center.y + Mul(dx, sin) + Mul(dy, cos),
                 pos.z)

\* rotatePositionAroundAxis(pos, center, axis, angle)
rotatePositionAroundAxis(pos, center, axis, angle) ==
    LET cos == Cos(angle)
        sin == Sin(angle)
        dx == pos.x - center.x
        dy == pos.y - center.y
        dz == pos.z - center.z
    IN  IF axis = "y"
        THEN Vec(center.x + Mul(dx, cos) + Mul(dz, sin),
                 pos.y,
                 center.z - Mul(dx, sin) + Mul(dz, cos))
        ELSE IF axis = "x"
        THEN Vec(pos.x,
                 center.y + Mul(dy, cos) - Mul(dz, sin),
                 center.z + Mul(dy, sin) + Mul(dz, cos))
        ELSE Vec(center.x + Mul(dx, cos) - Mul(dy, sin),
                 center.y + Mul(dx, sin) + Mul(dy, cos),
                 pos.z)

-----------------------------------------------------------------------------
(* Exact numbers (a + b*sqrt(2)) / 2^k, for the quaternion arithmetic *)

RECURSIVE Norm(_)
Norm(n) ==
    IF n.k > 0 /\ n.a % 2 = 0 /\ n.b % 2 = 0
    THEN Norm([a |-> n.a \div 2, b |-> n.b \div 2, k |-> n.k - 1])
    ELSE n

Num(a, b, k) == Norm([a |-> a, b |-> b, k |-> k])

RECURSIVE Pow2(_)
Pow2(k) == IF k = 0 THEN 1 ELSE 2 * Pow2(k - 1)

NAdd(p, q) ==
    LET K == Max2(p.k, q.k)
    IN  Num(p.a * Pow2(K - p.k) + q.a * Pow2(K - q.k),
            p.b * Pow2(K - p.k) + q.b * Pow2(K - q.k), K)

NNeg(p) == [a |-> -p.a, b |-> -p.b, k |-> p.k]

NSub(p, q) == NAdd(p, NNeg(q))

NMul(p, q) == Num(p.a * q.a + 2 * p.b * q.b, p.a * q.b + p.b * q.a, p.k + q.k)

NInt(n) == Num(n, 0, 0)

NIsInt(p) == p.b = 0 /\ p.k = 0

\* cos and sin of h*pi/180 for h a multiple of 45
CosHalf(h) ==
    LET i == (h % 360) \div 45
    IN  CASE i = 0 -> Num(1, 0, 0)
          [] i = 1 -> Num(0, 1, 1)
          [] i = 2 -> Num(0, 0, 0)
          [] i = 3 -> Num(0, -1, 1)
          [] i = 4 -> Num(-1, 0, 0)
          [] i = 5 -> Num(0, -1, 1)
          [] i = 6 -> Num(0, 0, 0)
          [] i = 7 -> Num(0, 1, 1)

SinHalf(h) == CosHalf(h - 90)

-----------------------------------------------------------------------------
(* The quaternion and Euler operations addRotationOnAxis calls *)

Quat(qx, qy, qz, qw) == [x |-> qx, y |-> qy, z |-> qz, w |-> qw]

\* new Quaternion().setFromEuler(new Euler(x, y, z, 'XYZ'))
setFromEuler(rotation) ==
    LET c1 == CosHalf(rotation.x \div 2)
        c2 == CosHalf(rotation.y \div 2)
        c3 == CosHalf(rotation.z \div 2)
        s1 == SinHalf(rotation.x \div 2)
        s2 == SinHalf(rotation.y \div 2)
        s3 == SinHalf(rotation.z \div 2)
    IN  Quat(NAdd(NMul(NMul(s1, c2), c3), NMul(NMul(c1, s2), s3)),
             NSub(NMul(NMul(c1, s2), c3), NMul(NMul(s1, c2), s3)),
             NAdd(NMul(NMul(c1, c2), s3), NMul(NMul(s1, s2), c3)),
             NSub(NMul(NMul(c1, c2), c3), NMul(NMul(s1, s2), s3)))

\* new Quaternion().setFromAxisAngle(axisVector, angle)
setFromAxisAngle(axis, angle) ==
    LET s == SinHalf(angle \div 2)
        zero == NInt(0)
    IN  Quat(IF axis = "x" THEN s ELSE zero,
             IF axis = "y" THEN s ELSE zero,
             IF axis = "z" THEN s ELSE zero,
             CosHalf(angle \div 2))

\* a.multiply(b): the quaternion product a * b
multiplyQuaternions(a, b) ==
    Quat(NSub(NAdd(NAdd(NMul(a.x, b.w), NMul(a.w, b.x)), NMul(a.y, b.z)), NMul(a.z, b.y)),
         NSub(NAdd(NAdd(NMul(a.y, b.w), NMul(a.w, b.y)), NMul(a.z, b.x)), NMul(a.x, b.z)),
         NSub(NAdd(NAdd(NMul(a.z, b.w), NMul(a.w, b.z)), NMul(a.x, b.y)), NMul(a.y, b.x)),
         NSub(NSub(NSub(NMul(a.w, b.w), NMul(a.x, b.x)), NMul(a.y, b.y)), NMul(a.z, b.z)))

\* Math.asin and Math.atan2 on the matrix entries of a quarter-turn rotation
Asin(m) == CASE m = -1 -> -90 [] m = 0 -> 0 [] m = 1 -> 90

Atan2(y, x) ==
    CASE y = 0 /\ x >= 0 -> 0
      [] y > 0 /\ x = 0 -> 90
      [] y = 0 /\ x < 0 -> 180
      [] y < 0 /\ x = 0 -> -90

\* new Euler().setFromQuaternion(q, 'XYZ'): the rotation matrix of q, then
\* its XYZ Euler angles (the gimbal-lock branch when |m13| is 1)
setFromQuaternion(q) ==
    LET two == NInt(2)
        one == NInt(1)
        x2 == NMul(q.x, two)
        y2 == NMul(q.y, two)
        z2 == NMul(q.z, two)
        xx == NMul(q.x, x2)
        xy == NMul(q.x, y2)
        xz == NMul(q.x, z2)
        yy == NMul(q.y, y2)
        yz == NMul(q.y, z2)
        zz == NMul(q.z, z2)
        wx == NMul(q.w, x2)
        wy == NMul(q.w, y2)
        wz == NMul(q.w, z2)
        m11 == NSub(one, NAdd(yy, zz)).a
        m12 == NSub(xy, wz).a
        m13 == NAdd(xz, wy).a
        m22 == NSub(one, NAdd(xx, zz)).a
        m23 == NSub(yz, wx).a
        m32 == NAdd(yz, wx).a
        m33 == NSub(one, NAdd(xx, yy)).a
    IN  IF Abs(m13) < 1
        THEN Vec(Atan2(-m23, m33), Asin(m13), Atan2(-m12, m11))
        ELSE Vec(Atan2(m32, m22), Asin(m13), 0)

\* a mutant of addRotationOnAxis: the delta is post-multiplied (object axes)
addRotationOnAxis_Local(rotation, axis, angle) ==
    setFromQuaternion(
        multiplyQuaternions(setFromEuler(rotation), setFromAxisAngle(axis, angle)))

\* addRotationOnAxis(rotation, axis, angle): next = delta * current
addRotationOnAxis(rotation, axis, angle) ==
    LET currentQuat == setFromEuler(rotation)
        deltaQuat == setFromAxisAngle(axis, angle)
        nextQuat == multiplyQuaternions(deltaQuat, currentQuat)
    IN  setFromQuaternion(nextQuat)

\* Euler angles and rotation increments of the model: the multiples of pi/2
QuarterTurns == {-90, 0, 90, 180}

RotSet == {Vec(a, b, c) : a \in QuarterTurns, b \in QuarterTurns, c \in QuarterTurns}

\* the values of addRotationOnAxis on the rotations of the model, computed once
addRotationTable ==
    [rotation \in RotSet, axis \in Axes, angle \in QuarterTurns |->
        addRotationOnAxis(rotation, axis, angle)]

-----------------------------------------------------------------------------
(* The rotation algebra applied to bounded inputs *)

\* lengths of the rotation models are multiples of 1/Cell of a grid cell
Cell == 2^6

CoordSet == {Cell * k : k \in -MaxCoord..MaxCoord}

PosSet == {Vec(a, b, c) : a \in CoordSet, b \in CoordSet, c \in CoordSet}

LenSet == {Cell * k : k \in 1..MaxDim}

DimSet == [width : LenSet, height : LenSet, depth : LenSet]

RoundTripInputs ==
    [op : {"roundTrip"}, position : PosSet, dimensions : DimSet, rotation : RotSet]

ComposeInputs ==
    [op : {"compose"}, rotation : RotSet, axis : Axes,
     angle : QuarterTurns \ {0}, v : PosSet]

NoCall == [op |-> "none"]

InitAlg ==
    /\ algIn \in RoundTripInputs \cup ComposeInputs
    /\ algOut = NoCall
    /\ boxes = <<>> /\ steps = 0 /\ last = NoCall /\ rotSet = <<>> /\ boxes0 = <<>>
    /\ cutIn = NoCall /\ cutOut = NoCall
    /\ InitEdit

\* center = boxVisualCenter(position, ...); corner = cornerFromVisualCenter(center, ...)
RoundTrip ==
    /\ algIn.op = "roundTrip" /\ algOut = NoCall
    /\ LET center == boxVisualCenter(algIn.position, algIn.dimensions, algIn.rotation)
       IN  algOut' = [op |-> "roundTrip", center |-> center,
                      corner |-> cornerFromVisualCenter(center, algIn.dimensions,
                                                        algIn.rotation)]
    /\ UNCHANGED <<boxes, steps, last, rotSet, boxes0, algIn, cutIn, cutOut>>
    /\ UNCHANGED editVars

\* next = addRotationOnAxis(rotation, axis, angle), then applied to v
Compose ==
    /\ algIn.op = "compose" /\ algOut = NoCall
    /\ LET next == addRotationOnAxis(algIn.rotation, algIn.axis, algIn.angle)
       IN  algOut' = [op |-> "compose", next |-> next,
                      applied |-> applyEulerToVec(algIn.v, next)]
    /\ UNCHANGED <<boxes, steps, last, rotSet, boxes0, algIn, cutIn, cutOut>>
    /\ UNCHANGED editVars

NextAlg == RoundTrip \/ Compose

SpecAlg == InitAlg /\ [][NextAlg]_vars

\* C1: round trip: cornerFromVisualCenter(boxVisualCenter(position, dimensions,
\* rotation), dimensions, rotation) is position, for every position, positive
\* dimensions and rotation.
C1_RoundTrip ==
    algOut.op = "roundTrip" => algOut.corner = algIn.position

\* the round trip was computed for a rotated box whose center is off its corner
C1_Witness ==
    /\ algOut.op = "roundTrip"
    /\ algIn.rotation = Vec(90, -90, 180)
    /\ algIn.dimensions.width # algIn.dimensions.height
    /\ algOut.center # algIn.position
    /\ algOut.corner = algIn.position

\* C9: addRotationOnAxis applies the increment in world axes: the returned
\* rotation applied to v is (current applied to v) rotated by angle about the
\* world axis.
C9_WorldAxes ==
    algOut.op = "compose" =>
        algOut.applied =
            rotatePositionAroundAxis(applyEulerToVec(algIn.v, algIn.rotation),
                                     Vec(0, 0, 0), algIn.axis, algIn.angle)

\* a composition on a rotated box where world and object axes differ
C9_Witness ==
    /\ algOut.op = "compose"
    /\ algIn.rotation = Vec(90, 0, 0) /\ algIn.axis = "y" /\ algIn.angle = 90
    /\ algIn.v = Vec(Cell, 0, 0)
    /\ algOut.applied = Vec(0, 0, -Cell)
    /\ algOut.applied #
         applyEulerToVec(algIn.v,
                         addRotationOnAxis_Local(algIn.rotation, algIn.axis, algIn.angle))

\* C10: composeRotation(identity, 'y', pi/2) applied to (1,0,0) yields (0,0,-1).
C10_SignConvention ==
    (/\ algOut.op = "compose"
     /\ algIn.rotation = ZERO_ROTATION /\ algIn.axis = "y" /\ algIn.angle = 90
     /\ algIn.v = Vec(Cell, 0, 0))
    => (algOut.next = Vec(0, 90, 0) /\ algOut.applied = Vec(0, 0, -Cell))

\* that composition has been computed
C10_Witness ==
    /\ algOut.op = "compose"
    /\ algIn.rotation = ZERO_ROTATION /\ algIn.axis = "y" /\ algIn.angle = 90
    /\ algIn.v = Vec(Cell, 0, 0)
    /\ algOut.applied = Vec(0, 0, -Cell)

-----------------------------------------------------------------------------
(* store/projectStore: the ROTATE_SELECTED and TOGGLE_LOCK cases of the reducer *)

BoxIds == {1, 2, 3}

Box(id, position, dimensions, rotation) ==
    [id |-> id, position |-> position, dimensions |-> dimensions,
     rotation |-> rotation, locked |-> FALSE]

Dims(w, h, d) == [width |-> w * Cell, height |-> h * Cell, depth |-> d * Cell]

\* targetBoxes = allBoxes.filter((b) => idSet.has(b.id) && !b.locked)
RECURSIVE targetBoxes(_, _)
targetBoxes(allBoxes, ids) ==
    IF allBoxes = <<>> THEN <<>>
    ELSE IF Head(allBoxes).id \in ids /\ ~Head(allBoxes).locked
    THEN <<Head(allBoxes)>> \o targetBoxes(Tail(allBoxes), ids)
    ELSE targetBoxes(Tail(allBoxes), ids)

\* visualCenters = targetBoxes.map((b) => boxVisualCenter(...))
visualCenters(targets) ==
    [i \in 1..Len(targets) |->
        boxVisualCenter(targets[i].position, targets[i].dimensions, targets[i].rotation)]

\* the loop over visualCenters: the running minimum and maximum of one
\* coordinate; the accumulator is Infinity (-Infinity) before the first
\* element, so the first element replaces it
RECURSIVE MinLoop(_, _, _, _)
MinLoop(vcs, c, i, acc) ==
    IF i > Len(vcs) THEN acc
    ELSE MinLoop(vcs, c, i + 1, IF i = 1 THEN vcs[i][c] ELSE Min2(acc, vcs[i][c]))

RECURSIVE MaxLoop(_, _, _, _)
MaxLoop(vcs, c, i, acc) ==
    IF i > Len(vcs) THEN acc
    ELSE MaxLoop(vcs, c, i + 1, IF i = 1 THEN vcs[i][c] ELSE Max2(acc, vcs[i][c]))

minOf(vcs, c) == MinLoop(vcs, c, 1, 0)

maxOf(vcs, c) == MaxLoop(vcs, c, 1, 0)

\* a mutant of groupPivot: the pivot is the first box's visual center
groupPivot_First(vcs) == vcs[1]

\* pivot = the center of the axis-aligned bounding box of the visual centers
groupPivot(vcs) ==
    Vec((minOf(vcs, "x") + maxOf(vcs, "x")) \div 2,
        (minOf(vcs, "y") + maxOf(vcs, "y")) \div 2,
        (minOf(vcs, "z") + maxOf(vcs, "z")) \div 2)

\* a mutant of rotateBox: the corner is re-derived with the old rotation
rotateBox_OldRotation(box, pivot, axis, angle) ==
    LET vc == boxVisualCenter(box.position, box.dimensions, box.rotation)
        newVc == rotatePositionAroundAxis(vc, pivot, axis, angle)
        newRotation == addRotationTable[box.rotation, axis, angle]
        newPosition == cornerFromVisualCenter(newVc, box.dimensions, box.rotation)
    IN  [box EXCEPT !.position = newPosition, !.rotation = newRotation]

\* a mutant of rotateBox: the stored corner is rotated, not the visual center
rotateBox_Corner(box, pivot, axis, angle) ==
    LET newVc == rotatePositionAroundAxis(box.position, pivot, axis, angle)
        newRotation == addRotationTable[box.rotation, axis, angle]
        newPosition == cornerFromVisualCenter(newVc, box.dimensions, newRotation)
    IN  [box EXCEPT !.position = newPosition, !.rotation = newRotation]

\* the body of allBoxes.map for a box that is selected and unlocked; vc, newVc
\* and newRotation are the consts of the code, each one evaluated once
rotateBox(box, pivot, axis, angle) ==
    CHOOSE rotated \in
        { [box EXCEPT !.position = cornerFromVisualCenter(newVc, box.dimensions,
                                                          newRotation),
                      !.rotation = newRotation] :
            newVc \in { rotatePositionAroundAxis(vc, pivot, axis, angle) :
                          vc \in {boxVisualCenter(box.position, box.dimensions,
                                                  box.rotation)} },
            newRotation \in {addRotationTable[box.rotation, axis, angle]} } : TRUE

\* a mutant of rotateSelected: the rotation turns the boxes over as well
rotateSelected_Resized(allBoxes, ids, axis, angle) ==
    LET targets == targetBoxes(allBoxes, ids)
    IN  IF Len(targets) = 0 THEN allBoxes
        ELSE LET pivot == groupPivot(visualCenters(targets))
             IN  [i \in 1..Len(allBoxes) |->
                    IF allBoxes[i].id \notin ids \/ allBoxes[i].locked
                    THEN allBoxes[i]
                    ELSE [rotateBox(allBoxes[i], pivot, axis, angle)
                             EXCEPT !.dimensions =
                                 [width |-> allBoxes[i].dimensions.depth,
                                  height |-> allBoxes[i].dimensions.height,
                                  depth |-> allBoxes[i].dimensions.width + 2]]]

\* case "ROTATE_SELECTED": the new box collection
rotateSelected(allBoxes, ids, axis, angle) ==
    LET targets == targetBoxes(allBoxes, ids)
    IN  IF Len(targets) = 0 THEN allBoxes
        ELSE CHOOSE rotated \in
                 { [i \in 1..Len(allBoxes) |->
                       IF allBoxes[i].id \notin ids \/ allBoxes[i].locked
                       THEN allBoxes[i]
                       ELSE rotateBox(allBoxes[i], pivot, axis, angle)] :
                     pivot \in { groupPivot(vcs) :
                                   vcs \in {visualCenters(targets)} } } : TRUE

\* case "TOGGLE_LOCK": lock all if any is unlocked, unlock all if all are locked
toggleLock(allBoxes, ids) ==
    LET allLocked == \A i \in 1..Len(allBoxes) :
                        allBoxes[i].id \in ids => allBoxes[i].locked
    IN  [i \in 1..Len(allBoxes) |->
            IF allBoxes[i].id \in ids
            THEN [allBoxes[i] EXCEPT !.locked = ~allLocked]
            ELSE allBoxes[i]]

-----------------------------------------------------------------------------
(* The reducer as a state machine over a collection of three boxes *)

\* boxes as the editor can hold them: created at rotation zero, then moved,
\* resized and rotated by quarter turns
InitBoxSet ==
    { <<Box(1, Vec(-Cell, -Cell, -Cell), d1, ZERO_ROTATION),
        Box(2, Vec(Cell, -Cell, -Cell), Dims(2, 2, 2), ZERO_ROTATION),
        Box(3, p3, Dims(1, 2, 3), Vec(0, 90, 90))>> :
        d1 \in {Dims(2, 2, 2), Dims(2, 4, 2)},
        p3 \in {Vec(-Cell, -Cell, 2 * Cell)} }

IdsOf(bs) == {bs[i].id : i \in 1..Len(bs)}

BoxOf(bs, id) == bs[CHOOSE i \in 1..Len(bs) : bs[i].id = id]

VcOf(bs, id) ==
    boxVisualCenter(BoxOf(bs, id).position, BoxOf(bs, id).dimensions,
                    BoxOf(bs, id).rotation)

NoSet == [kind |-> "none"]

InitStore ==
    /\ boxes \in InitBoxSet
    /\ boxes0 = boxes
    /\ steps = 0
    /\ last = NoCall
    /\ rotSet = NoSet
    /\ algIn = NoCall /\ algOut = NoCall /\ cutIn = NoCall /\ cutOut = NoCall
    /\ InitEdit

\* whether the halvings of the pivot computation lose nothing
ExactPivot(vcs) ==
    \A c \in Axes :
        (minOf(vcs, c) + maxOf(vcs, c)) % 2 = 0

\* dispatch({ type: "ROTATE_SELECTED", ids, angle, axis })
RotateSelected(ids, axis, angle) ==
    /\ steps < MaxSteps
    /\ steps' = steps + 1
    /\ boxes' = rotateSelected(boxes, ids, axis, angle)
    /\ LET targets == targetBoxes(boxes, ids)
           tids == IdsOf(targets)
       IN  /\ last' = [op |-> "rotate", ids |-> ids, axis |-> axis, angle |-> angle,
                       before |-> boxes, targets |-> tids,
                       pivot |-> IF Len(targets) = 0 THEN Vec(0, 0, 0)
                                 ELSE groupPivot(visualCenters(targets)),
                       exact |-> Len(targets) = 0 \/ ExactPivot(visualCenters(targets))]
           /\ rotSet' = IF tids = {} THEN rotSet
                        ELSE IF rotSet.kind = "none" THEN [kind |-> "set", ids |-> tids]
                        ELSE IF rotSet.kind = "set" /\ rotSet.ids = tids THEN rotSet
                        ELSE [kind |-> "mixed"]
    /\ UNCHANGED <<boxes0, algIn, algOut, cutIn, cutOut>>
    /\ UNCHANGED editVars

\* dispatch({ type: "TOGGLE_LOCK", ids })
ToggleLock(ids) ==
    /\ steps < MaxSteps
    /\ steps' = steps + 1
    /\ boxes' = toggleLock(boxes, ids)
    /\ last' = [op |-> "lock", ids |-> ids, before |-> boxes]
    /\ UNCHANGED <<rotSet, boxes0, algIn, algOut, cutIn, cutOut>>
    /\ UNCHANGED editVars

NextStore ==
    \/ \E ids \in SUBSET BoxIds, axis \in Axes, angle \in {-90, 90} :
          RotateSelected(ids, axis, angle)
    \/ \E id \in BoxIds : ToggleLock({id})

SpecStore == InitStore /\ [][NextStore]_vars

\* every halving the reducer performed was exact, and the boxes stay on the grid
ExactRotate ==
    /\ last.op = "rotate" => last.exact
    /\ \A i \in 1..Len(boxes) :
          /\ boxes[i].dimensions.width % 2 = 0
          /\ boxes[i].dimensions.height % 2 = 0
          /\ boxes[i].dimensions.depth % 2 = 0

-----------------------------------------------------------------------------
(* Claims about ROTATE_SELECTED *)

Dist2(p, q) ==
    (p.x - q.x) * (p.x - q.x) + (p.y - q.y) * (p.y - q.y) + (p.z - q.z) * (p.z - q.z)

Rotated == last.op = "rotate" /\ last.targets # {}

\* boxes 1 and 2, with visual centers (0,0,0) and (2,0,0), have just been
\* rotated together by pi/2 about Y (one length unit is Cell)
C5_Case ==
    /\ Rotated /\ last.targets = {1, 2} /\ last.axis = "y" /\ last.angle = 90
    /\ VcOf(last.before, 1) = Vec(0, 0, 0)
    /\ VcOf(last.before, 2) = Vec(2 * Cell, 0, 0)

\* C5 as stated: the visual centers become (1,0,-1) and (1,0,1).
C5_Original ==
    C5_Case => /\ VcOf(boxes, 1) = Vec(Cell, 0, -Cell)
               /\ VcOf(boxes, 2) = Vec(Cell, 0, Cell)

\* C5 as amended: the rotation is about pivot (1,0,0) and the visual centers
\* become (1,0,1) for the first box and (1,0,-1) for the second, still 2 apart.
C5_GroupExample ==
    C5_Case => /\ last.pivot = Vec(Cell, 0, 0)
               /\ VcOf(boxes, 1) = Vec(Cell, 0, Cell)
               /\ VcOf(boxes, 2) = Vec(Cell, 0, -Cell)
               /\ Dist2(VcOf(boxes, 1), VcOf(boxes, 2)) = (2 * Cell) * (2 * Cell)

C5_Witness == C5_Case /\ VcOf(boxes, 1) = Vec(Cell, 0, Cell)

\* C6: after ROTATE_SELECTED the visual center of every rotated box, computed
\* from its new corner and new rotation, is its previous visual center rotated
\* by angle about axis through the group pivot.
C6_NewCenter ==
    Rotated =>
        \A id \in last.targets :
            VcOf(boxes, id) =
                rotatePositionAroundAxis(VcOf(last.before, id), last.pivot,
                                         last.axis, last.angle)

\* a box that is not a cube was rotated, so its rotated half-dimensions changed
C6_Witness ==
    /\ Rotated
    /\ \E id \in last.targets :
          /\ applyEulerToVec(halfDims(BoxOf(boxes, id).dimensions),
                             BoxOf(boxes, id).rotation)
               # applyEulerToVec(halfDims(BoxOf(boxes, id).dimensions),
                                 BoxOf(last.before, id).rotation)
          /\ VcOf(boxes, id) # VcOf(last.before, id)

\* the sum of one coordinate of the visual centers of a set of boxes
RECURSIVE SumVc(_, _, _)
SumVc(bs, ids, c) ==
    IF ids = {} THEN 0
    ELSE LET id == CHOOSE i \in ids : TRUE
         IN  VcOf(bs, id)[c] + SumVc(bs, ids \ {id}, c)

IsCentroid(p, bs, ids) ==
    \A c \in Axes : Cardinality(ids) * p[c] = SumVc(bs, ids, c)

IsBoundsCenter(p, bs, ids) ==
    \A c \in Axes :
        \E lo \in ids, hi \in ids :
            /\ \A id \in ids : /\ VcOf(bs, lo)[c] <= VcOf(bs, id)[c]
                               /\ VcOf(bs, id)[c] <= VcOf(bs, hi)[c]
            /\ 2 * p[c] = VcOf(bs, lo)[c] + VcOf(bs, hi)[c]

\* C7 as stated: the pivot is the centroid of the visual centers of the
\* rotated boxes, for any number of boxes.
C7_Original == Rotated => IsCentroid(last.pivot, last.before, last.targets)

\* C7 as amended: the pivot is the center of the axis-aligned bounding box of
\* the visual centers of the rotated boxes; it is their centroid when one or
\* two boxes are rotated.
C7_Pivot ==
    Rotated =>
        /\ IsBoundsCenter(last.pivot, last.before, last.targets)
        /\ Cardinality(last.targets) <= 2 =>
              IsCentroid(last.pivot, last.before, last.targets)

\* three boxes were rotated about a pivot that is not their centroid
C7_Witness ==
    /\ Rotated /\ Cardinality(last.targets) = 3
    /\ ~IsCentroid(last.pivot, last.before, last.targets)
    /\ \E id \in last.targets : VcOf(boxes, id) # VcOf(last.before, id)

\* C8: ROTATE_SELECTED preserves the distance between the visual centers of
\* every pair of boxes it rotates, and after any sequence of rotations of the
\* same set of boxes their pairwise distances are the initial ones.
C8_Rigid ==
    /\ Rotated =>
          \A i \in last.targets, j \in last.targets :
              Dist2(VcOf(boxes, i), VcOf(boxes, j)) =
                  Dist2(VcOf(last.before, i), VcOf(last.before, j))
    /\ rotSet.kind = "set" =>
          \A i \in rotSet.ids, j \in rotSet.ids :
              Dist2(VcOf(boxes, i), VcOf(boxes, j)) =
                  Dist2(VcOf(boxes0, i), VcOf(boxes0, j))

\* the same three boxes were rotated twice and have moved
C8_Witness ==
    /\ Rotated /\ steps = 2 /\ rotSet.kind = "set" /\ rotSet.ids = {1, 2, 3}
    /\ last.before # boxes0
    /\ \A id \in BoxIds : VcOf(boxes, id) # VcOf(boxes0, id)

-----------------------------------------------------------------------------
(* core/cuts: the face-edge cut engine *)

CutFaces == {"top", "bottom", "front", "back", "left", "right"}

CutEdges == {"top", "bottom", "front", "back"}

FACE_CONFIG ==
    [face \in CutFaces |->
        CASE face = "top" ->
               [normalAxis |-> "y", normalDir |-> 1, pivotAxis |-> "x", rotationSign |-> 1]
          [] face = "bottom" ->
               [normalAxis |-> "y", normalDir |-> -1, pivotAxis |-> "x", rotationSign |-> -1]
          [] face = "front" ->
               [normalAxis |-> "z", normalDir |-> 1, pivotAxis |-> "x", rotationSign |-> -1]
          [] face = "back" ->
               [normalAxis |-> "z", normalDir |-> -1, pivotAxis |-> "x", rotationSign |-> 1]
          [] face = "right" ->
               [normalAxis |-> "x", normalDir |-> 1, pivotAxis |-> "y", rotationSign |-> -1]
          [] face = "left" ->
               [normalAxis |-> "x", normalDir |-> -1, pivotAxis |-> "y", rotationSign |-> 1]]

FACE_EDGES ==
    [face \in CutFaces |->
        IF face \in {"front", "back"} THEN <<"top", "bottom">> ELSE <<"front", "back">>]

DEFAULT_EDGE ==
    [face \in CutFaces |-> IF face \in {"front", "back"} THEN "bottom" ELSE "back"]

EDGE_DIR ==
    [edge \in CutEdges |-> IF edge \in {"front", "top"} THEN 1 ELSE -1]

\* otherAxis(a, b): the axis perpendicular to both
otherAxis(a, b) ==
    IF (a = "x" /\ b = "y") \/ (a = "y" /\ b = "x") THEN "z"
    ELSE IF (a = "x" /\ b = "z") \/ (a = "z" /\ b = "x") THEN "y"
    ELSE "x"

\* rotateVec3(v, axis, angle)
rotateVec3(v, axis, angle) ==
    LET cos == Cos(angle)
        sin == Sin(angle)
    IN  IF axis = "x"
        THEN Vec(v.x, Mul(v.y, cos) - Mul(v.z, sin), Mul(v.y, sin) + Mul(v.z, cos))
        ELSE IF axis = "y"
        THEN Vec(Mul(v.x, cos) + Mul(v.z, sin), v.y, -Mul(v.x, sin) + Mul(v.z, cos))
        ELSE Vec(Mul(v.x, cos) - Mul(v.y, sin), Mul(v.x, sin) + Mul(v.y, cos), v.z)

\* halfDim = { x: w / 2, y: h / 2, z: d / 2 }
halfDim(dimensions) == halfDims(dimensions)

\* cutterSize = Math.max(w, h, d) * 3
cutterSize(dimensions) ==
    Max2(Max2(dimensions.width, dimensions.height), dimensions.depth) * 3

\* edge = cut.edge ?? DEFAULT_EDGE[cut.face]
entryEdge(cut) == IF cut.edge = "undefined" THEN DEFAULT_EDGE[cut.face] ELSE cut.edge

\* a mutant of pivotEdgeSign: the pivot is put on the entry side
pivotEdgeSign_Entry(cut) == EDGE_DIR[entryEdge(cut)]

\* pivotEdgeSign = -entryDir
pivotEdgeSign(cut) == -EDGE_DIR[entryEdge(cut)]

\* a mutant of rotationAngle: the side of the pivot does not flip the rotation
rotationAngle_OneSided(cut) ==
    LET angleRad == (cut.angle * 180) \div 180
    IN  FACE_CONFIG[cut.face].rotationSign * angleRad

\* rotationAngle = pivotEdgeSign * config.rotationSign * angleRad, where
\* angleRad = cut.angle * Math.PI / 180
rotationAngle(cut) ==
    LET angleRad == (cut.angle * 180) \div 180
    IN  pivotEdgeSign(cut) * FACE_CONFIG[cut.face].rotationSign * angleRad

\* fullDim = dimensions[width | height | depth] along the normal axis
fullDim(dimensions, normalAxis) ==
    IF normalAxis = "x" THEN dimensions.width
    ELSE IF normalAxis = "y" THEN dimensions.height
    ELSE dimensions.depth

\* a mutant of cutPivot: the depth is ignored
cutPivot_Through(dimensions, cut) ==
    LET config == FACE_CONFIG[cut.face]
        edgeAxis == otherAxis(config.normalAxis, config.pivotAxis)
        p0 == [Vec(0, 0, 0) EXCEPT
                  ![config.normalAxis] = config.normalDir * halfDim(dimensions)[config.normalAxis]]
    IN  [p0 EXCEPT ![edgeAxis] = pivotEdgeSign(cut) * halfDim(dimensions)[edgeAxis]]

\* the pivot point: on the face, at the edge opposite the blade entry, moved
\* inward by fullDim - depth for a partial-depth cut
cutPivot(dimensions, cut) ==
    LET config == FACE_CONFIG[cut.face]
        edgeAxis == otherAxis(config.normalAxis, config.pivotAxis)
        p0 == [Vec(0, 0, 0) EXCEPT
                  ![config.normalAxis] = config.normalDir * halfDim(dimensions)[config.normalAxis]]
        p1 == [p0 EXCEPT ![edgeAxis] = pivotEdgeSign(cut) * halfDim(dimensions)[edgeAxis]]
    IN  IF cut.depth # <<>>
        THEN LET inset == fullDim(dimensions, config.normalAxis) - cut.depth[1]
             IN  [p1 EXCEPT ![config.normalAxis] = @ - config.normalDir * inset]
        ELSE p1

\* a mutant of relVec: the cutter center is a whole cutter size off the pivot
relVec_Whole(dimensions, cut) ==
    [Vec(0, 0, 0) EXCEPT
        ![FACE_CONFIG[cut.face].normalAxis] =
            FACE_CONFIG[cut.face].normalDir * cutterSize(dimensions)]

\* relVec[axisIndex] = config.normalDir * cutterSize / 2
relVec(dimensions, cut) ==
    [Vec(0, 0, 0) EXCEPT
        ![FACE_CONFIG[cut.face].normalAxis] =
            (FACE_CONFIG[cut.face].normalDir * cutterSize(dimensions)) \div 2]

\* buildCutterProps(dimensions, cut)
buildCutterProps(dimensions, cut) ==
    LET config == FACE_CONFIG[cut.face]
        pivot == cutPivot(dimensions, cut)
        rotatedRelVec == rotateVec3(relVec(dimensions, cut), config.pivotAxis,
                                    rotationAngle(cut))
    IN  [position |-> Vec(pivot.x + rotatedRelVec.x, pivot.y + rotatedRelVec.y,
                          pivot.z + rotatedRelVec.z),
         rotation |-> [Vec(0, 0, 0) EXCEPT ![config.pivotAxis] = rotationAngle(cut)],
         scale |-> Vec(cutterSize(dimensions), cutterSize(dimensions),
                       cutterSize(dimensions))]

-----------------------------------------------------------------------------
(* buildCutterProps applied to bounded inputs *)

\* box dimensions of the cut model are multiples of CutCell, the length unit,
\* so that halving and the products with Cos and Sin are exact
CutCell == 2 * TrigScale

CutLenSet == {CutCell * k : k \in 1..MaxDim}

CutDimSet == [width : CutLenSet, height : CutLenSet, depth : CutLenSet]

\* cut angles in degrees, from the range 0..89 the editor allows
CutAngles == {0, 15, 30, 45, 60, 75, 89}

\* depth omitted, or a positive depth up to more than the largest dimension
CutDepths == {<<>>} \cup {<<(CutCell \div 2) * k>> : k \in 1..(2 * MaxDim + 1)}

CutSet ==
    [face : CutFaces, angle : CutAngles, edge : CutEdges \cup {"undefined"},
     depth : CutDepths]

InitCut ==
    /\ cutIn \in [dimensions : CutDimSet, cut : CutSet]
    /\ cutOut = NoCall
    /\ boxes = <<>> /\ steps = 0 /\ last = NoCall /\ rotSet = NoSet /\ boxes0 = <<>>
    /\ algIn = NoCall /\ algOut = NoCall
    /\ InitEdit

\* props = buildCutterProps(box.dimensions, cut), with the pivot it used
BuildCutter ==
    /\ cutOut = NoCall
    /\ cutOut' = [op |-> "cutter",
                  props |-> buildCutterProps(cutIn.dimensions, cutIn.cut),
                  pivot |-> cutPivot(cutIn.dimensions, cutIn.cut)]
    /\ UNCHANGED <<boxes, steps, last, rotSet, boxes0, algIn, algOut, cutIn>>
    /\ UNCHANGED editVars

NextCut == BuildCutter

SpecCut == InitCut /\ [][NextCut]_vars

\* the products of buildCutterProps lose nothing on these inputs
ExactCut ==
    /\ \A c \in Axes : halfDim(cutIn.dimensions)[c] * 2 = fullDim(cutIn.dimensions, c)
    /\ cutterSize(cutIn.dimensions) % 2 = 0
    /\ ExactMul(cutterSize(cutIn.dimensions) \div 2, Cos(rotationAngle(cutIn.cut)))
    /\ ExactMul(cutterSize(cutIn.dimensions) \div 2, Sin(rotationAngle(cutIn.cut)))

-----------------------------------------------------------------------------
(* The cutter as a solid: which points of the box it contains *)

Built == cutOut.op = "cutter"

TheFace == FACE_CONFIG[cutIn.cut.face]

\* the coordinates of point p in the frame of the cutter, times TrigScale
CutterLocal(p, props, axis) ==
    LET d == Vec(p.x - props.position.x, p.y - props.position.y, p.z - props.position.z)
        cos == Cos(-props.rotation[axis])
        sin == Sin(-props.rotation[axis])
    IN  IF axis = "x"
        THEN Vec(d.x * TrigScale, d.y * cos - d.z * sin, d.y * sin + d.z * cos)
        ELSE IF axis = "y"
        THEN Vec(d.x * cos + d.z * sin, d.y * TrigScale, -d.x * sin + d.z * cos)
        ELSE Vec(d.x * cos - d.y * sin, d.x * sin + d.y * cos, d.z * TrigScale)

\* p is in the cutter cube, at least margin away from each of its faces
InCutter(p, props, axis, margin) ==
    \A c \in Axes :
        2 * Abs(CutterLocal(p, props, axis)[c]) < (props.scale[c] - 2 * margin) * TrigScale

\* tolerance of the point tests: far above the rounding of Cos and Sin, far
\* below the size of a box
Margin == CutCell \div 20

\* the points of the face's edge on side sign of the edge axis: its two ends
\* and its middle
FaceEdgePoints(dimensions, face, sign) ==
    LET config == FACE_CONFIG[face]
        edgeAxis == otherAxis(config.normalAxis, config.pivotAxis)
        h == halfDim(dimensions)
    IN  { [[Vec(0, 0, 0) EXCEPT ![config.normalAxis] = config.normalDir * h[config.normalAxis]]
              EXCEPT ![edgeAxis] = sign * h[edgeAxis], ![config.pivotAxis] = t * h[config.pivotAxis]] :
          t \in {-1, 0, 1} }

\* a lattice of points of the box, from just inside one face to just inside
\* the opposite one
BoxPoints(dimensions) ==
    LET h == halfDim(dimensions)
        Line(c) == {-(h[c] - 1), -(h[c] \div 2), 0, h[c] \div 2, h[c] - 1}
    IN  {Vec(a, b, c) : a \in Line("x"), b \in Line("y"), c \in Line("z")}

\* the lattice points the cutter removes
Removed(dimensions, cut) ==
    {p \in BoxPoints(dimensions) :
        InCutter(p, buildCutterProps(dimensions, cut), FACE_CONFIG[cut.face].pivotAxis,
                 Margin)}

-----------------------------------------------------------------------------
(* Claims about buildCutterProps *)

\* a through cut at a positive angle from one of the two entry edges of its face
C2_Case ==
    /\ Built /\ cutIn.cut.angle > 0 /\ cutIn.cut.depth = <<>>
    /\ cutIn.cut.edge \in {FACE_EDGES[cutIn.cut.face][1], FACE_EDGES[cutIn.cut.face][2]}

\* C2: for every face, permitted entry edge and angle 0 < angle <= 89 with no
\* depth, the cutter removes a wedge that starts at the entry edge: the points
\* of the cut face along the entry edge are inside the cutter, the removed
\* region grows with the angle, and the pivot edge of the face is not removed.
C2_Wedge ==
    C2_Case =>
        /\ \A p \in FaceEdgePoints(cutIn.dimensions, cutIn.cut.face,
                                   EDGE_DIR[cutIn.cut.edge]) :
              InCutter(p, cutOut.props, TheFace.pivotAxis, Margin)
        /\ \A p \in FaceEdgePoints(cutIn.dimensions, cutIn.cut.face,
                                   -EDGE_DIR[cutIn.cut.edge]) :
              ~InCutter(p, cutOut.props, TheFace.pivotAxis, Margin)
        /\ Removed(cutIn.dimensions, cutIn.cut) # {}
        /\ \A a \in CutAngles :
              (0 < a /\ a < cutIn.cut.angle) =>
                  Removed(cutIn.dimensions, [cutIn.cut EXCEPT !.angle = a])
                      \subseteq Removed(cutIn.dimensions, cutIn.cut)

\* what the code does in the case of C2: the cutter contains no point of the
\* box and none of the entry edge
CutterMissesBox ==
    C2_Case =>
        /\ Removed(cutIn.dimensions, cutIn.cut) = {}
        /\ \A p \in FaceEdgePoints(cutIn.dimensions, cutIn.cut.face,
                                   EDGE_DIR[cutIn.cut.edge]) :
              ~InCutter(p, cutOut.props, TheFace.pivotAxis, 0)

\* the coordinate along the face normal of the cutter face that looks at the box
NearFace == cutOut.props.position[TheFace.normalAxis]
               - TheFace.normalDir * (cutOut.props.scale[TheFace.normalAxis] \div 2)

\* the coordinate along the face normal of the cut face of the box
BoxFace == TheFace.normalDir * halfDim(cutIn.dimensions)[TheFace.normalAxis]

NoneRemoved ==
    \A p \in BoxPoints(cutIn.dimensions) :
        ~InCutter(p, cutOut.props, TheFace.pivotAxis, 0)

C3_Case == Built /\ cutIn.cut.angle = 0

SpecNormal(face) ==
    CASE face = "top" -> Vec(0, 1, 0)
      [] face = "bottom" -> Vec(0, -1, 0)
      [] face = "front" -> Vec(0, 0, 1)
      [] face = "back" -> Vec(0, 0, -1)
      [] face = "right" -> Vec(1, 0, 0)
      [] face = "left" -> Vec(-1, 0, 0)

SpecPivotAxis(face) == IF face \in {"left", "right"} THEN "y" ELSE "x"

SpecEdgeAxis(face) == IF face \in {"front", "back"} THEN "y" ELSE "z"

SpecFaceSign(face) == IF face \in {"top", "back", "left"} THEN 1 ELSE -1

SpecEdgeSign(cut) ==
    LET e == IF cut.edge = "undefined"
             THEN (IF cut.face \in {"front", "back"} THEN "bottom" ELSE "back")
             ELSE cut.edge
    IN  IF e \in {"front", "top"} THEN 1 ELSE -1

SpecPivot(dimensions, cut) ==
    LET n == SpecNormal(cut.face)
        size == Vec(dimensions.width, dimensions.height, dimensions.depth)
        full == Abs(n.x) * size.x + Abs(n.y) * size.y + Abs(n.z) * size.z
        inward == IF cut.depth = <<>> THEN 0 ELSE full - cut.depth[1]
    IN  [c \in Axes |->
            IF c = SpecEdgeAxis(cut.face) THEN -SpecEdgeSign(cut) * (size[c] \div 2)
            ELSE n[c] * ((size[c] \div 2) - inward)]

SpecAngle(cut) == -SpecEdgeSign(cut) * SpecFaceSign(cut.face) * cut.angle

SpecSize(dimensions) ==
    3 * (CHOOSE m \in {dimensions.width, dimensions.height, dimensions.depth} :
            m >= dimensions.width /\ m >= dimensions.height /\ m >= dimensions.depth)

SpecPosition(dimensions, cut) ==
    LET n == SpecNormal(cut.face)
        r == SpecSize(dimensions) \div 2
        c == Cos(SpecAngle(cut))
        s == Sin(SpecAngle(cut))
        pivot == SpecPivot(dimensions, cut)
    IN  IF SpecPivotAxis(cut.face) = "x"
        THEN Vec(pivot.x,
                 pivot.y + (r * (n.y * c - n.z * s)) \div TrigScale,
                 pivot.z + (r * (n.y * s + n.z * c)) \div TrigScale)
        ELSE Vec(pivot.x + (r * (n.x * c + n.z * s)) \div TrigScale,
                 pivot.y,
                 pivot.z + (r * (n.z * c - n.x * s)) \div TrigScale)

\* C4: buildCutterProps computes the pose of the specification's algorithm for
\* every face, entry edge, angle and depth: pivot on the face plane (moved
\* inward by full - depth), at -(entry edge sign) * half-dimension along the
\* edge axis; rotationAngle = pivotSign * faceRotationSign * angle; position =
\* pivot + the outward half cutter size rotated about the pivot axis; rotation
\* on the pivot axis only; scale 3 * the largest dimension.  Dimensions
\* (1,1,1), top, front, 45 give pivot (0, 0.5, -0.5) and -45 degrees about X.
C4_Pose ==
    Built =>
        /\ cutOut.pivot = SpecPivot(cutIn.dimensions, cutIn.cut)
        /\ cutOut.props.position = SpecPosition(cutIn.dimensions, cutIn.cut)
        /\ cutOut.props.rotation =
              [c \in Axes |-> IF c = SpecPivotAxis(cutIn.cut.face)
                              THEN SpecAngle(cutIn.cut) ELSE 0]
        /\ cutOut.props.scale =
              [c \in Axes |-> SpecSize(cutIn.dimensions)]
        /\ (/\ cutIn.dimensions = [width |-> CutCell, height |-> CutCell, depth |-> CutCell]
            /\ cutIn.cut = [face |-> "top", edge |-> "front", angle |-> 45, depth |-> <<>>])
           => /\ cutOut.pivot = Vec(0, CutCell \div 2, -(CutCell \div 2))
              /\ cutOut.props.rotation = Vec(-45, 0, 0)

\* the pose of the specification's example has been computed
C4_Witness ==
    /\ Built
    /\ cutIn.dimensions = [width |-> CutCell, height |-> CutCell, depth |-> CutCell]
    /\ cutIn.cut = [face |-> "top", edge |-> "front", angle |-> 45, depth |-> <<>>]
    /\ cutOut.pivot = Vec(0, CutCell \div 2, -(CutCell \div 2))
    /\ cutOut.props.rotation = Vec(-45, 0, 0)

-----------------------------------------------------------------------------
(* Symmetry of the cutter pose in the entry edge *)

\* the pose of the same cut entered from the other permitted edge of its face
OtherEdge(cut) ==
    IF entryEdge(cut) = FACE_EDGES[cut.face][1] THEN FACE_EDGES[cut.face][2]
    ELSE FACE_EDGES[cut.face][1]

MirrorProps == buildCutterProps(cutIn.dimensions,
                                [cutIn.cut EXCEPT !.edge = OtherEdge(cutIn.cut)])

C11_Case ==
    /\ Built /\ cutIn.cut.face = "top" /\ cutIn.cut.edge \in {"front", "back"}

\* C11: for face top, the poses for edge front and for edge back are mirror
\* images across the plane z = 0: the positions differ only in the sign of z,
\* the rotation angles about X are opposite, and the scales are equal.
C11_Mirror ==
    C11_Case =>
        /\ MirrorProps.position =
              [cutOut.props.position EXCEPT !.z = -cutOut.props.position.z]
        /\ MirrorProps.rotation =
              Vec(-cutOut.props.rotation.x, 0, 0)
        /\ cutOut.props.rotation.y = 0 /\ cutOut.props.rotation.z = 0
        /\ MirrorProps.scale = cutOut.props.scale

\* a front-entry cut at a non-zero angle on a box with unequal sides, whose
\* mirror image is a different pose
C11_Witness ==
    /\ C11_Case /\ cutIn.cut.edge = "front" /\ cutIn.cut.angle = 30
    /\ cutIn.dimensions.depth # cutIn.dimensions.height
    /\ cutOut.props.rotation.x = -30
    /\ MirrorProps.rotation.x = 30
    /\ MirrorProps.position.z = -cutOut.props.position.z
    /\ MirrorProps.position.z > 0

-----------------------------------------------------------------------------
(* Cuts deeper than the box *)

\* a cut whose depth is at least the full dimension along the face normal
C15_Case ==
    /\ Built /\ cutIn.cut.depth # <<>>
    /\ cutIn.cut.depth[1] >= fullDim(cutIn.dimensions, TheFace.normalAxis)

\* how far the depth exceeds the full dimension
Excess == cutIn.cut.depth[1] - fullDim(cutIn.dimensions, TheFace.normalAxis)

\* the pose of the same cut with the depth omitted
ThroughProps == buildCutterProps(cutIn.dimensions, [cutIn.cut EXCEPT !.depth = <<>>])

\* the middle of the cut face and the points of its two edges
FaceRegion ==
    FaceEdgePoints(cutIn.dimensions, cutIn.cut.face, 1)
        \cup FaceEdgePoints(cutIn.dimensions, cutIn.cut.face, -1)
        \cup {[Vec(0, 0, 0) EXCEPT ![TheFace.normalAxis] = BoxFace]}

\* C15 as stated: the call returns a pose, the pivot is at or past the
\* opposite face, and the cutter removes the entire face region.
C15_Original ==
    C15_Case =>
        /\ cutOut.props \in [position : [Axes -> Int], rotation : [Axes -> Int],
                             scale : [Axes -> Int]]
        /\ TheFace.normalDir * cutOut.pivot[TheFace.normalAxis] <= -Abs(BoxFace)
        /\ \A p \in FaceRegion : InCutter(p, cutOut.props, TheFace.pivotAxis, 0)

\* C15 as amended: the call returns a pose; the pivot is on the plane of the
\* cut face (depth = full dimension) or outside the box beyond it by
\* depth - full dimension, never toward the opposite face; the pose is that of
\* the same cut without depth moved outward by that amount, so the cutter
\* removes nothing that the through cut does not remove, and nothing at all at
\* angle 0.
C15_DeepCut ==
    C15_Case =>
        /\ DOMAIN cutOut.props = {"position", "rotation", "scale"}
        /\ TheFace.normalDir * cutOut.pivot[TheFace.normalAxis] = Abs(BoxFace) + Excess
        /\ cutOut.props.position =
              [ThroughProps.position EXCEPT
                  ![TheFace.normalAxis] = @ + TheFace.normalDir * Excess]
        /\ cutOut.props.rotation = ThroughProps.rotation
        /\ cutOut.props.scale = ThroughProps.scale
        /\ Removed(cutIn.dimensions, cutIn.cut)
              \subseteq Removed(cutIn.dimensions, [cutIn.cut EXCEPT !.depth = <<>>])
        /\ cutIn.cut.angle = 0 =>
              /\ NoneRemoved
              /\ \A p \in FaceRegion : ~InCutter(p, cutOut.props, TheFace.pivotAxis, 0)

\* a cut deeper than the box, whose pivot is outside the box beyond the cut face
C15_Witness ==
    /\ C15_Case /\ Excess > 0 /\ cutIn.cut.angle = 0
    /\ TheFace.normalDir * cutOut.pivot[TheFace.normalAxis] > Abs(BoxFace)
    /\ cutOut.props.position # ThroughProps.position
    /\ NoneRemoved

-----------------------------------------------------------------------------
(* core/betaMiter: the edge-pivot cut engine *)

BetaMiterEdges ==
    {"top-front", "top-back", "bottom-front", "bottom-back",
     "top-left", "top-right", "bottom-left", "bottom-right",
     "front-left", "front-right", "back-left", "back-right"}

\* EDGE_CONFIG: the axis the edge runs along and the signs of the two
\* coordinates that place it (config.x ?? 0 is 0 for the one left out)
EDGE_CONFIG ==
    [edge \in BetaMiterEdges |->
        CASE edge = "top-front"    -> [axis |-> "x", x |-> 0, y |-> 1, z |-> 1]
          [] edge = "top-back"     -> [axis |-> "x", x |-> 0, y |-> 1, z |-> -1]
          [] edge = "bottom-front" -> [axis |-> "x", x |-> 0, y |-> -1, z |-> 1]
          [] edge = "bottom-back"  -> [axis |-> "x", x |-> 0, y |-> -1, z |-> -1]
          [] edge = "top-left"     -> [axis |-> "z", x |-> -1, y |-> 1, z |-> 0]
          [] edge = "top-right"    -> [axis |-> "z", x |-> 1, y |-> 1, z |-> 0]
          [] edge = "bottom-left"  -> [axis |-> "z", x |-> -1, y |-> -1, z |-> 0]
          [] edge = "bottom-right" -> [axis |-> "z", x |-> 1, y |-> -1, z |-> 0]
          [] edge = "front-left"   -> [axis |-> "y", x |-> -1, y |-> 0, z |-> 1]
          [] edge = "front-right"  -> [axis |-> "y", x |-> 1, y |-> 0, z |-> 1]
          [] edge = "back-left"    -> [axis |-> "y", x |-> -1, y |-> 0, z |-> -1]
          [] edge = "back-right"   -> [axis |-> "y", x |-> 1, y |-> 0, z |-> -1]]

FACE_NORMAL ==
    [face \in CutFaces |->
        CASE face = "left"   -> Vec(-1, 0, 0)
          [] face = "right"  -> Vec(1, 0, 0)
          [] face = "bottom" -> Vec(0, -1, 0)
          [] face = "top"    -> Vec(0, 1, 0)
          [] face = "back"   -> Vec(0, 0, -1)
          [] face = "front"  -> Vec(0, 0, 1)]

FACE_TO_EDGES ==
    [face \in CutFaces |->
        CASE face = "left"   -> {"top-left", "bottom-left", "front-left", "back-left"}
          [] face = "right"  -> {"top-right", "bottom-right", "front-right", "back-right"}
          [] face = "top"    -> {"top-front", "top-back", "top-left", "top-right"}
          [] face = "bottom" -> {"bottom-front", "bottom-back", "bottom-left", "bottom-right"}
          [] face = "front"  -> {"top-front", "bottom-front", "front-left", "front-right"}
          [] face = "back"   -> {"top-back", "bottom-back", "back-left", "back-right"}]

\* Vector3 arithmetic
VAdd(a, b) == Vec(a.x + b.x, a.y + b.y, a.z + b.z)

VSub(a, b) == Vec(a.x - b.x, a.y - b.y, a.z - b.z)

VScale(a, k) == Vec(a.x * k, a.y * k, a.z * k)

VDot(a, b) == a.x * b.x + a.y * b.y + a.z * b.z

Sgn(n) == IF n > 0 THEN 1 ELSE IF n < 0 THEN -1 ELSE 0

\* Vector3.normalize of a vector along one coordinate axis (the zero vector
\* stays zero); the sweep direction of an edge and a face meeting at it is
\* such a vector
normalize(v) == Vec(Sgn(v.x), Sgn(v.y), Sgn(v.z))

axisVector(axis) ==
    IF axis = "x" THEN Vec(1, 0, 0)
    ELSE IF axis = "y" THEN Vec(0, 1, 0)
    ELSE Vec(0, 0, 1)

\* getEdgePivot(edge, dims)
getEdgePivot(edge, dims) ==
    LET config == EDGE_CONFIG[edge]
        halfW == dims.width \div 2
        halfH == dims.height \div 2
        halfD == dims.depth \div 2
    IN  Vec(config.x * halfW, config.y * halfH, config.z * halfD)

\* getFaceCenter(face, dims)
getFaceCenter(face, dims) ==
    LET halfW == dims.width \div 2
        halfH == dims.height \div 2
        halfD == dims.depth \div 2
    IN  IF face = "left" THEN Vec(-halfW, 0, 0)
        ELSE IF face = "right" THEN Vec(halfW, 0, 0)
        ELSE IF face = "bottom" THEN Vec(0, -halfH, 0)
        ELSE IF face = "top" THEN Vec(0, halfH, 0)
        ELSE IF face = "back" THEN Vec(0, 0, -halfD)
        ELSE Vec(0, 0, halfD)

\* lengths of the edge-pivot model are in millionths of a meter
Metre == TrigScale * TrigScale

\* addScaledVector(sweep, 0.06)
SweepOffset == (6 * Metre) \div 100

\* addScaledVector(inward, 0.002)
InwardOffset == (2 * Metre) \div 1000

\* the 1e-6 added to the half size in pointInsideRotatedCube
CubeTolerance == Metre \div (TrigScale * TrigScale)

\* v rotated by angle about axis, times TrigScale: what applyQuaternion does
\* with a quaternion made by setFromAxisAngle(axisVector(axis), angle)
applyQuaternionScaled(v, axis, angle) ==
    LET cos == Cos(angle)
        sin == Sin(angle)
    IN  IF axis = "x"
        THEN Vec(v.x * TrigScale, v.y * cos - v.z * sin, v.y * sin + v.z * cos)
        ELSE IF axis = "y"
        THEN Vec(v.x * cos + v.z * sin, v.y * TrigScale, -(v.x * sin) + v.z * cos)
        ELSE Vec(v.x * cos - v.y * sin, v.x * sin + v.y * cos, v.z * TrigScale)

applyQuaternion(v, axis, angle) ==
    LET r == applyQuaternionScaled(v, axis, angle)
    IN  Vec(r.x \div TrigScale, r.y \div TrigScale, r.z \div TrigScale)

\* pointInsideRotatedCube(point, center, rotation, size), the rotation being
\* by angle about axis; the comparison is made on values times TrigScale
pointInsideRotatedCube(point, center, axis, angle, size) ==
    LET local == applyQuaternionScaled(VSub(point, center), axis, -angle)
        half == (size \div 2 + CubeTolerance) * TrigScale
    IN  Abs(local.x) <= half /\ Abs(local.y) <= half /\ Abs(local.z) <= half

\* cutterSize = Math.max(dims.width, dims.height, dims.depth) * 3
betaCutterSize(dims) == Max2(Max2(dims.width, dims.height), dims.depth) * 3

\* outsideVector = faceNormal * cutterSize / 2
outsideVector(dims, cut) ==
    VScale(FACE_NORMAL[cut.entryFace], betaCutterSize(dims) \div 2)

\* the direction along the entry face from the pivot edge to the face center
sweepDir(dims, cut) ==
    LET edgeDir == axisVector(EDGE_CONFIG[cut.edge].axis)
        faceNormal == FACE_NORMAL[cut.entryFace]
        towardCenter == VSub(getFaceCenter(cut.entryFace, dims),
                             getEdgePivot(cut.edge, dims))
        t1 == VSub(towardCenter, VScale(edgeDir, VDot(towardCenter, edgeDir)))
        t2 == VSub(t1, VScale(faceNormal, VDot(t1, faceNormal)))
    IN  normalize(t2)

\* samplePoint = pivot + 0.06 * sweep + 0.002 * inward
samplePoint(dims, cut) ==
    LET sd == sweepDir(dims, cut)
        sweep == IF 2 * VDot(sd, sd) > 1 THEN sd ELSE Vec(1, 0, 0)
        inward == VScale(FACE_NORMAL[cut.entryFace], -1)
    IN  VAdd(VAdd(getEdgePivot(cut.edge, dims), VScale(sweep, SweepOffset)),
             VScale(inward, InwardOffset))

\* plusCenter (sign 1) and minusCenter (sign -1)
candidateCenter(dims, cut, sign) ==
    VAdd(applyQuaternion(outsideVector(dims, cut), EDGE_CONFIG[cut.edge].axis,
                         sign * cut.angle),
         getEdgePivot(cut.edge, dims))

\* plusHitsInterior (sign 1) and minusHitsInterior (sign -1)
hitsInterior(dims, cut, sign) ==
    pointInsideRotatedCube(samplePoint(dims, cut), candidateCenter(dims, cut, sign),
                           EDGE_CONFIG[cut.edge].axis, sign * cut.angle,
                           betaCutterSize(dims))

\* a mutant of finalSign: the -angle candidate is the default
finalSign_MinusDefault(dims, cut) ==
    IF hitsInterior(dims, cut, 1) THEN 1 ELSE -1

\* a mutant of finalSign: the probe is not consulted
finalSign_Plus(dims, cut) == 1

\* finalRotation: 1 for plusRotation, -1 for minusRotation
finalSign(dims, cut) ==
    IF hitsInterior(dims, cut, 1) \/ ~hitsInterior(dims, cut, -1) THEN 1 ELSE -1

\* buildBetaMiterCutterProps(dims, cut)
buildBetaMiterCutterProps(dims, cut) ==
    LET sign == finalSign(dims, cut)
        size == betaCutterSize(dims)
    IN  [position |-> candidateCenter(dims, cut, sign),
         rotation |-> [Vec(0, 0, 0) EXCEPT
                          ![EDGE_CONFIG[cut.edge].axis] = sign * cut.angle],
         scale |-> Vec(size, size, size)]

-----------------------------------------------------------------------------
(* buildBetaMiterCutterProps applied to bounded inputs *)

\* box sides of 0.1 m and its multiples
BetaLenSet == {(Metre \div 10) * k : k \in 1..MaxDim}

BetaDimSet == [width : BetaLenSet, height : BetaLenSet, depth : BetaLenSet]

\* cut angles in degrees
BetaAngles == {0, 1, 2, 15, 30, 45, 60, 75, 88, 89}

\* an edge with one of the two faces that meet at it, and an angle
BetaCutSet ==
    {c \in [edge : BetaMiterEdges, entryFace : CutFaces, angle : BetaAngles] :
        c.edge \in FACE_TO_EDGES[c.entryFace]}

InitBeta ==
    /\ cutIn \in [dimensions : BetaDimSet, cut : BetaCutSet]
    /\ cutOut = NoCall
    /\ boxes = <<>> /\ steps = 0 /\ last = NoCall /\ rotSet = NoSet /\ boxes0 = <<>>
    /\ algIn = NoCall /\ algOut = NoCall
    /\ InitEdit

\* props = buildBetaMiterCutterProps(dims, cut), with what the probe found
BuildBetaMiter ==
    /\ cutOut = NoCall
    /\ cutOut' = [op |-> "beta",
                  props |-> buildBetaMiterCutterProps(cutIn.dimensions, cutIn.cut),
                  plusHitsInterior |-> hitsInterior(cutIn.dimensions, cutIn.cut, 1),
                  minusHitsInterior |-> hitsInterior(cutIn.dimensions, cutIn.cut, -1),
                  sign |-> finalSign(cutIn.dimensions, cutIn.cut)]
    /\ UNCHANGED <<boxes, steps, last, rotSet, boxes0, algIn, algOut, cutIn>>
    /\ UNCHANGED editVars

\* the other of the two faces that meet at an edge
otherFace(edge, face) ==
    CHOOSE f \in CutFaces : f # face /\ edge \in FACE_TO_EDGES[f]

\* the next cut of the box's betaMiterCuts: the same edge and angle entered
\* through the other face; the result of the first cut is kept in last
NextBetaCut ==
    /\ cutOut.op = "beta" /\ last = NoCall
    /\ last' = [op |-> "beta", cut |-> cutIn.cut, props |-> cutOut.props,
                sign |-> cutOut.sign]
    /\ cutIn' = [cutIn EXCEPT
                    !.cut.entryFace = otherFace(cutIn.cut.edge, cutIn.cut.entryFace)]
    /\ cutOut' = NoCall
    /\ UNCHANGED <<boxes, steps, rotSet, boxes0, algIn, algOut>>
    /\ UNCHANGED editVars

NextBeta == BuildBetaMiter \/ NextBetaCut

SpecBeta == InitBeta /\ [][NextBeta]_vars

-----------------------------------------------------------------------------
(* The probe of the edge-pivot model *)

BetaBuilt == cutOut.op = "beta"

BetaAxis == EDGE_CONFIG[cutIn.cut.edge].axis

\* whether the cube of the pose returned contains point p
InChosen(p) ==
    pointInsideRotatedCube(p, cutOut.props.position, BetaAxis,
                           cutOut.props.rotation[BetaAxis],
                           cutOut.props.scale.x)

\* the point of the entry face's surface above the probe point
SurfacePoint ==
    VAdd(samplePoint(cutIn.dimensions, cutIn.cut),
         VScale(FACE_NORMAL[cutIn.cut.entryFace], InwardOffset))

C12_Case == BetaBuilt /\ cutIn.cut.angle > 0

\* C12: for every edge, each of the two faces meeting at it as entry face and
\* every angle in 0 < angle <= 89, the pose chosen is the candidate whose cube
\* contains the probe point, so it removes material next to the entry face.
C12_ProbeInside ==
    C12_Case =>
        /\ InChosen(samplePoint(cutIn.dimensions, cutIn.cut))
        /\ InChosen(SurfacePoint)

\* what the code does at an angle too small for the probe: neither candidate
\* contains the probe and the +angle candidate is returned
BetaNoMatch ==
    (BetaBuilt /\ cutIn.cut.angle \in {0, 1}) =>
        /\ ~cutOut.plusHitsInterior /\ ~cutOut.minusHitsInterior
        /\ cutOut.sign = 1

\* from two degrees on exactly one candidate contains the probe, and it is
\* the one returned
BetaMatch ==
    (BetaBuilt /\ cutIn.cut.angle >= 2) =>
        /\ cutOut.plusHitsInterior # cutOut.minusHitsInterior
        /\ InChosen(samplePoint(cutIn.dimensions, cutIn.cut))
        /\ InChosen(SurfacePoint)

\* the failing input of C12: edge top-front entered through face top at one
\* degree returns the +angle pose, whose cube holds neither the probe nor the
\* face's surface above it, while the -angle cube holds that surface point
BetaTiltedAway ==
    /\ BetaBuilt /\ cutIn.cut = [edge |-> "top-front", entryFace |-> "top", angle |-> 1]
    /\ cutOut.props.rotation = Vec(1, 0, 0)
    /\ ~InChosen(samplePoint(cutIn.dimensions, cutIn.cut))
    /\ ~InChosen(SurfacePoint)
    /\ pointInsideRotatedCube(SurfacePoint,
                              candidateCenter(cutIn.dimensions, cutIn.cut, -1),
                              BetaAxis, -1, betaCutterSize(cutIn.dimensions))

\* C13: the -angle candidate is selected exactly when the probe is inside the
\* -angle cube and not inside the +angle cube; in every other case the +angle
\* candidate is selected. The pose returned is that of the selected candidate.
C13_TieBreak ==
    BetaBuilt =>
        /\ cutOut.sign = -1 <=>
              (cutOut.minusHitsInterior /\ ~cutOut.plusHitsInterior)
        /\ cutOut.sign = 1 <=>
              (cutOut.plusHitsInterior \/ ~cutOut.minusHitsInterior)
        /\ cutOut.props.rotation[BetaAxis] = cutOut.sign * cutIn.cut.angle
        /\ cutOut.props.position =
               candidateCenter(cutIn.dimensions, cutIn.cut, cutOut.sign)

\* neither candidate contains the probe and the +angle pose was returned
C13_Witness ==
    /\ BetaBuilt /\ cutIn.cut.angle = 1
    /\ ~cutOut.plusHitsInterior /\ ~cutOut.minusHitsInterior
    /\ cutOut.sign = 1
    /\ cutOut.props.rotation[BetaAxis] = 1

\* C14: both outcomes are reachable: entering edge top-front at 45 degrees
\* through face front returns the +angle rotation and through face top the
\* -angle rotation; for every edge and every angle from two degrees on the
\* two entry faces give opposite outcomes.
C14_BothOutcomes ==
    /\ (BetaBuilt /\ cutIn.cut.edge = "top-front" /\ cutIn.cut.angle = 45) =>
          /\ cutIn.cut.entryFace = "front" => cutOut.props.rotation = Vec(45, 0, 0)
          /\ cutIn.cut.entryFace = "top" => cutOut.props.rotation = Vec(-45, 0, 0)
    /\ (BetaBuilt /\ last.op = "beta" /\ cutIn.cut.angle >= 2) =>
          cutOut.sign = -last.sign

\* one behaviour in which the first cut returned +45 and the second -45
C14_Witness ==
    /\ BetaBuilt /\ last.op = "beta"
    /\ last.cut = [edge |-> "top-front", entryFace |-> "front", angle |-> 45]
    /\ cutIn.cut.entryFace = "top"
    /\ last.sign = 1 /\ last.props.rotation = Vec(45, 0, 0)
    /\ cutOut.sign = -1 /\ cutOut.props.rotation = Vec(-45, 0, 0)

-----------------------------------------------------------------------------
(* store/projectStore: the reducer with its undo history *)

MAX_HISTORY == 50

BOX_MUTATING_ACTIONS ==
    {"ADD_BOX", "ADD_BOXES", "DELETE_BOX", "UPDATE_BOX", "DUPLICATE_BOXES",
     "PASTE_BOXES", "DELETE_SELECTED_BOXES", "ROTATE_SELECTED", "GROUP_BOXES",
     "UNGROUP_BOXES", "TOGGLE_LOCK", "TOGGLE_VISIBILITY", "PLACE_COMPONENT"}

\* the ProjectState of the current state
StoreState ==
    [boxes |-> boxes, selectedBoxIds |-> selectedBoxIds, mode |-> mode,
     currentTemplate |-> currentTemplate,
     history |-> history, historyIndex |-> historyIndex,
     historyBatchAnchor |-> historyBatchAnchor]

\* getActiveBoxes(state)
getActiveBoxes(state) ==
    IF state.mode = "component-builder"
    THEN IF state.currentTemplate = <<>> THEN <<>> ELSE state.currentTemplate[1]
    ELSE state.boxes

\* setActiveBoxes(state, boxes)
setActiveBoxes(state, newBoxes) ==
    IF state.mode = "component-builder" /\ state.currentTemplate # <<>>
    THEN [state EXCEPT !.currentTemplate = <<newBoxes>>]
    ELSE [state EXCEPT !.boxes = newBoxes]

\* array.filter((box) => box.id !== id)
RECURSIVE withoutBox(_, _)
withoutBox(bs, id) ==
    IF bs = <<>> THEN <<>>
    ELSE IF Head(bs).id = id THEN withoutBox(Tail(bs), id)
    ELSE <<Head(bs)>> \o withoutBox(Tail(bs), id)

\* a mutant of capHistory: the history is never cut
capHistory_Unbounded(h) == h

\* history.length > 50 ? history.slice(history.length - 50) : history
capHistory(h) ==
    IF Len(h) > MAX_HISTORY THEN SubSeq(h, Len(h) - MAX_HISTORY + 1, Len(h)) ELSE h

\* { ...object, ...updates }
spread(object, updates) ==
    [f \in DOMAIN object \cup DOMAIN updates |->
        IF f \in DOMAIN updates THEN updates[f] ELSE object[f]]

\* a mutant of UNDO: the snapshots ahead of the new index are dropped
UNDO_DropAhead(state) ==
    IF state.historyIndex <= 0 THEN state
    ELSE [setActiveBoxes(state, state.history[(state.historyIndex - 1) + 1])
             EXCEPT !.historyIndex = state.historyIndex - 1,
                    !.history = SubSeq(state.history, 1, state.historyIndex),
                    !.selectedBoxIds = <<>>]

\* case "UNDO"
UNDO(state) ==
    IF state.historyIndex <= 0 THEN state
    ELSE [setActiveBoxes(state, state.history[(state.historyIndex - 1) + 1])
             EXCEPT !.historyIndex = state.historyIndex - 1,
                    !.selectedBoxIds = <<>>]

\* case "REDO"
REDO(state) ==
    IF state.historyIndex >= Len(state.history) - 1 THEN state
    ELSE [setActiveBoxes(state, state.history[(state.historyIndex + 1) + 1])
             EXCEPT !.historyIndex = state.historyIndex + 1,
                    !.selectedBoxIds = <<>>]

\* projectReducer(state, action)
projectReducer(state, action) ==
    CASE action.type = "ADD_BOX" ->
           setActiveBoxes(state, Append(getActiveBoxes(state), action.box))
      [] action.type = "UPDATE_BOX" ->
           setActiveBoxes(state,
               [i \in 1..Len(getActiveBoxes(state)) |->
                   IF getActiveBoxes(state)[i].id = action.id
                   THEN spread(getActiveBoxes(state)[i], action.updates)
                   ELSE getActiveBoxes(state)[i]])
      [] action.type = "DELETE_BOX" ->
           [setActiveBoxes(state, withoutBox(getActiveBoxes(state), action.id))
               EXCEPT !.selectedBoxIds = SelectSeq(state.selectedBoxIds,
                                                   LAMBDA id : id # action.id)]
      [] action.type = "ADD_BOXES" ->
           [setActiveBoxes(state, getActiveBoxes(state) \o action.boxes)
               EXCEPT !.selectedBoxIds =
                          [i \in 1..Len(action.boxes) |-> action.boxes[i].id]]
      [] action.type = "DELETE_SELECTED_BOXES" ->
           [setActiveBoxes(state,
                SelectSeq(getActiveBoxes(state), LAMBDA box : box.id \notin action.ids))
               EXCEPT !.selectedBoxIds = <<>>]
      [] action.type = "TOGGLE_BOX_SELECTION" ->
           [state EXCEPT !.selectedBoxIds =
               IF \E i \in 1..Len(state.selectedBoxIds) :
                      state.selectedBoxIds[i] = action.id
               THEN SelectSeq(state.selectedBoxIds, LAMBDA id : id # action.id)
               ELSE Append(state.selectedBoxIds, action.id)]
      [] action.type = "SET_PROJECT" ->
           [state EXCEPT !.boxes = action.project, !.history = <<action.project>>,
                         !.historyIndex = 0]
      [] action.type = "SELECT_BOXES" ->
           [state EXCEPT !.selectedBoxIds = action.ids]
      [] action.type = "ROTATE_SELECTED" ->
           IF Len(targetBoxes(getActiveBoxes(state), action.ids)) = 0 THEN state
           ELSE setActiveBoxes(state,
                    rotateSelected(getActiveBoxes(state), action.ids, action.axis,
                                   action.angle))
      [] action.type = "TOGGLE_LOCK" ->
           setActiveBoxes(state, toggleLock(getActiveBoxes(state), action.ids))
      [] action.type = "START_COMPONENT_BUILDER" ->
           [state EXCEPT !.mode = "component-builder", !.selectedBoxIds = <<>>,
                         !.currentTemplate = <<<<>>>>]
      [] action.type = "CANCEL_COMPONENT_BUILDER" ->
           [state EXCEPT !.mode = "project", !.currentTemplate = <<>>,
                         !.selectedBoxIds = <<>>]
      [] action.type = "UNDO" -> UNDO(state)
      [] action.type = "REDO" -> REDO(state)
      [] action.type = "HISTORY_BATCH_START" ->
           [state EXCEPT !.historyBatchAnchor = <<getActiveBoxes(state)>>]
      [] action.type = "HISTORY_BATCH_END" ->
           IF state.historyBatchAnchor = <<>> THEN state
           ELSE IF state.historyBatchAnchor[1] # getActiveBoxes(state)
           THEN LET sliced == SubSeq(state.history, 1, state.historyIndex + 1)
                    anchored == IF Len(sliced) > 0 /\ state.historyIndex >= 0
                                THEN [sliced EXCEPT ![state.historyIndex + 1] =
                                                       state.historyBatchAnchor[1]]
                                ELSE sliced
                    capped == capHistory(Append(anchored, getActiveBoxes(state)))
                IN  [state EXCEPT !.historyBatchAnchor = <<>>,
                                  !.history = capped,
                                  !.historyIndex = Len(capped) - 1]
           ELSE [state EXCEPT !.historyBatchAnchor = <<>>]
      [] OTHER -> state

\* oldBoxes !== newBoxes: whether the reducer built a new array of boxes
\* (every box-mutating case does, except ROTATE_SELECTED with nothing to rotate)
newBoxesArray(state, action) ==
    IF action.type = "ROTATE_SELECTED"
    THEN Len(targetBoxes(getActiveBoxes(state), action.ids)) # 0
    ELSE TRUE

\* a mutant of pushSnapshot: the snapshots ahead of the pointer are kept
pushSnapshot_KeepRedo(state, newState) ==
    [newState EXCEPT
        !.history = capHistory(SubSeq(state.history, 1, state.historyIndex + 1)
                                   \o <<getActiveBoxes(newState)>>
                                   \o SubSeq(state.history, state.historyIndex + 2,
                                             Len(state.history))),
        !.historyIndex = state.historyIndex + 1]

\* the history after a push of the new active boxes: the redo tail dropped,
\* the snapshot appended, the oldest dropped beyond MAX_HISTORY
pushSnapshot(state, newState) ==
    [newState EXCEPT
        !.history = capHistory(Append(SubSeq(state.history, 1, state.historyIndex + 1),
                                      getActiveBoxes(newState))),
        !.historyIndex =
            Len(capHistory(Append(SubSeq(state.history, 1, state.historyIndex + 1),
                                  getActiveBoxes(newState)))) - 1]

\* a mutant of withHistory: UPDATE_BOX is recorded during a batch
withHistory_NoBatch(state, action, newState) ==
    IF action.type \in BOX_MUTATING_ACTIONS /\ newBoxesArray(state, action)
    THEN pushSnapshot(state, newState)
    ELSE newState

\* the body of projectReducerWithHistory, newState being
\* projectReducer(state, action)
withHistory(state, action, newState) ==
    IF action.type \in BOX_MUTATING_ACTIONS
    THEN IF state.historyBatchAnchor # <<>> /\ action.type = "UPDATE_BOX"
         THEN newState
         ELSE IF newBoxesArray(state, action)
         THEN pushSnapshot(state, newState)
         ELSE newState
    ELSE newState

\* projectReducerWithHistory(state, action)
projectReducerWithHistory(state, action) ==
    withHistory(state, action, projectReducer(state, action))

\* the x at which addBox puts a new box: the first of 0, w + spacing,
\* 2 (w + spacing), ... at which it overlaps no box in x and z
RECURSIVE freeX(_, _, _)
freeX(bs, defaultDim, posX) ==
    LET spacing == Cell \div 4
        isOverlapping ==
            \E i \in 1..Len(bs) :
                /\ posX < bs[i].position.x + bs[i].dimensions.width + spacing
                /\ bs[i].position.x < posX + defaultDim.width + spacing
                /\ 0 < bs[i].position.z + bs[i].dimensions.depth + spacing
                /\ bs[i].position.z < 0 + defaultDim.depth + spacing
    IN  IF isOverlapping THEN freeX(bs, defaultDim, posX + defaultDim.width + spacing)
        ELSE posX

\* the box addBox builds, for a material without default dimensions; id and
\* cutId stand for the two uuid() values
addBox(state, id, cutId) ==
    LET defaultDim == [width |-> Cell, height |-> Cell, depth |-> Cell]
        posX == freeX(getActiveBoxes(state), defaultDim, 0)
    IN  [id |-> id,
         position |-> Vec(posX, 0, 0),
         dimensions |-> defaultDim,
         rotation |-> ZERO_ROTATION,
         locked |-> FALSE,
         cuts |-> <<[id |-> cutId, face |-> "left", angle |-> 45,
                     edge |-> "undefined", depth |-> <<>>]>>]

\* the provider's initial state
InitialState ==
    [boxes |-> <<>>, selectedBoxIds |-> <<>>, mode |-> "project",
     currentTemplate |-> <<>>,
     history |-> <<<<>>>>, historyIndex |-> 0, historyBatchAnchor |-> <<>>]

\* the active boxes after k - 1 box-mutating dispatches on a new store, addBox
\* and then TOGGLE_LOCK of that box again and again
Snapshot(k) ==
    IF k = 1 THEN <<>>
    ELSE <<[addBox(InitialState, 1, 1) EXCEPT !.locked = (k % 2 = 1)]>>

\* the store after those n dispatches: one snapshot each, none dropped while
\* n < MAX_HISTORY
Replay(n) ==
    [boxes |-> Snapshot(n + 1),
     selectedBoxIds |-> IF n = 0 THEN <<>> ELSE <<1>>, mode |-> "project",
     currentTemplate |-> <<>>,
     history |-> [k \in 1..(n + 1) |-> Snapshot(k)], historyIndex |-> n,
     historyBatchAnchor |-> <<>>]

MaxOps == 3      \* dispatches per behaviour of the store with history

\* the stores a behaviour starts from: new, holding one box, holding one
\* locked box, history full
HistoryStarts == {Replay(0), Replay(1), Replay(2), Replay(MAX_HISTORY - 1)}

InitStoreAt(state) ==
    /\ boxes = state.boxes
    /\ mode = state.mode
    /\ currentTemplate = state.currentTemplate
    /\ history = state.history
    /\ historyIndex = state.historyIndex
    /\ historyBatchAnchor = state.historyBatchAnchor
    /\ selectedBoxIds = state.selectedBoxIds
    /\ fileBoxes = <<>>
    /\ InitUi
    /\ boxes0 = state.boxes
    /\ steps = 0
    /\ last = NoCall
    /\ rotSet = NoSet
    /\ algIn = NoCall /\ algOut = NoCall /\ cutIn = NoCall /\ cutOut = NoCall

InitHistory == \E state \in HistoryStarts : InitStoreAt(state)

\* the store after the dispatches of one handler, in their order
RECURSIVE reduceAll(_, _)
reduceAll(state, actions) ==
    IF actions = <<>> THEN state
    ELSE reduceAll(projectReducerWithHistory(state, Head(actions)), Tail(actions))

\* a handler that dispatches the actions, through projectReducerWithHistory
DispatchAll(actions, bound) ==
    /\ steps < bound
    /\ steps' = steps + 1
    /\ \E newState \in {reduceAll(StoreState, actions)} :
           /\ boxes' = newState.boxes
           /\ mode' = newState.mode
           /\ currentTemplate' = newState.currentTemplate
           /\ history' = newState.history
           /\ historyIndex' = newState.historyIndex
           /\ historyBatchAnchor' = newState.historyBatchAnchor
           /\ selectedBoxIds' = newState.selectedBoxIds
    /\ UNCHANGED <<rotSet, boxes0, algIn, algOut, cutIn, cutOut, fileBoxes>>

\* dispatch(action) from outside the viewport
Dispatch(action, bound) ==
    /\ DispatchAll(<<action>>, bound)
    /\ UNCHANGED uiVars

\* the last dispatch and the store it was applied to, with the two dispatches
\* before it
Dispatched(action) ==
    last' = [op |-> action.type, action |-> action, before |-> StoreState,
             prev |-> IF last.op = "none" THEN NoCall
                      ELSE [op |-> last.op, before |-> last.before],
             prev2 |-> IF last.op = "none" THEN NoCall ELSE last.prev]

\* the uuid() of the next box or cut
FreshId == steps + 2

ActiveIds == IdsOf(getActiveBoxes(StoreState))

\* addBox(): builds the box and dispatches ADD_BOX
AddBox ==
    LET action == [type |-> "ADD_BOX", box |-> addBox(StoreState, FreshId, FreshId)]
    IN  /\ DispatchAll(<<action, [type |-> "SELECT_BOXES", ids |-> <<FreshId>>]>>,
                       MaxOps)
        /\ UNCHANGED uiVars
        /\ Dispatched(action)

\* updateBox(id, { position })
UpdateBox(id, position) ==
    LET action == [type |-> "UPDATE_BOX", id |-> id,
                   updates |-> [position |-> position]]
    IN  Dispatch(action, MaxOps) /\ Dispatched(action)

\* deleteBox(id)
DeleteBox(id) ==
    LET action == [type |-> "DELETE_BOX", id |-> id]
    IN  Dispatch(action, MaxOps) /\ Dispatched(action)

\* rotateSelected(angle, axis) on the selection ids
DispatchRotate(ids, axis, angle) ==
    LET action == [type |-> "ROTATE_SELECTED", ids |-> ids, axis |-> axis,
                   angle |-> angle]
    IN  Dispatch(action, MaxOps) /\ Dispatched(action)

\* toggleLock(ids)
DispatchToggleLock(ids) ==
    LET action == [type |-> "TOGGLE_LOCK", ids |-> ids]
    IN  Dispatch(action, MaxOps) /\ Dispatched(action)

\* undo(), redo(), historyBatchStart(), historyBatchEnd(),
\* startComponentBuilder(), cancelComponentBuilder()
DispatchPlain(type) ==
    Dispatch([type |-> type], MaxOps) /\ Dispatched([type |-> type])

Undo == DispatchPlain("UNDO")
Redo == DispatchPlain("REDO")
HistoryBatchStart == DispatchPlain("HISTORY_BATCH_START")
HistoryBatchEnd == DispatchPlain("HISTORY_BATCH_END")
StartComponentBuilder == DispatchPlain("START_COMPONENT_BUILDER")
CancelComponentBuilder == DispatchPlain("CANCEL_COMPONENT_BUILDER")

\* importProject(): dispatch SET_PROJECT with the project read from a file
ImportProject(project) ==
    LET action == [type |-> "SET_PROJECT", project |-> project]
    IN  Dispatch(action, MaxOps) /\ Dispatched(action)

\* the boxes of the project files to import: exports of the current project,
\* made when it held its first n boxes
ImportedProjects == {SubSeq(boxes, 1, n) : n \in 0..Len(boxes)}

DragTargets == {Vec(0, 0, 0), Vec(Cell, 0, 0)}

\* the id lists rotateSelected is called with: up to two of the active boxes
RotateIds == {ids \in SUBSET ActiveIds : Cardinality(ids) <= 2}

NextHistory ==
    \/ AddBox
    \/ \E id \in ActiveIds, position \in DragTargets : UpdateBox(id, position)
    \/ \E id \in ActiveIds \cup {0} : DeleteBox(id)
    \/ \E ids \in RotateIds : DispatchRotate(ids, "y", 90)
    \/ \E id \in ActiveIds : DispatchToggleLock({id})
    \/ Undo
    \/ Redo
    \/ HistoryBatchStart
    \/ HistoryBatchEnd
    \/ StartComponentBuilder
    \/ CancelComponentBuilder
    \/ \E project \in ImportedProjects : ImportProject(project)

SpecHistory == InitHistory /\ [][NextHistory]_vars

-----------------------------------------------------------------------------
(* One drag: HISTORY_BATCH_START, UPDATE_BOX ..., HISTORY_BATCH_END, UNDO *)

MaxDrag == 5     \* dispatches per behaviour of a drag

\* the stores a drag starts from: one box; one box and a redo tail (two
\* dispatches and an UNDO); a template with one box in the component builder
\* (addBox, START_COMPONENT_BUILDER, addBox); a full history
BatchStarts ==
    {Replay(1),
     [Replay(2) EXCEPT !.boxes = Snapshot(2), !.historyIndex = 1,
                       !.selectedBoxIds = <<>>],
     [Replay(1) EXCEPT !.mode = "component-builder",
                       !.selectedBoxIds = <<2>>,
                       !.currentTemplate = <<<<addBox(InitialState, 2, 2)>>>>,
                       !.history = <<Snapshot(1), Snapshot(2),
                                     <<addBox(InitialState, 2, 2)>>>>,
                       !.historyIndex = 2],
     Replay(MAX_HISTORY - 1)}

InitBatch == \E state \in BatchStarts : InitStoreAt(state)

NoDrag == [op |-> "other"]

\* onDragStart: dispatch HISTORY_BATCH_START
BatchStart ==
    /\ Dispatch([type |-> "HISTORY_BATCH_START"], MaxDrag)
    /\ last' = [op |-> "drag", phase |-> "open", n |-> 0,
                pre |-> getActiveBoxes(StoreState),
                h0 |-> history, i0 |-> historyIndex]

\* a move of the drag: dispatch UPDATE_BOX
BatchUpdate(id, position) ==
    /\ Dispatch([type |-> "UPDATE_BOX", id |-> id,
                 updates |-> [position |-> position]], MaxDrag)
    /\ last' = IF last.op = "drag" /\ last.phase = "open"
               THEN [last EXCEPT !.n = last.n + 1]
               ELSE NoDrag

\* onDragEnd: dispatch HISTORY_BATCH_END
BatchEnd ==
    /\ Dispatch([type |-> "HISTORY_BATCH_END"], MaxDrag)
    /\ last' = IF last.op = "drag" /\ last.phase = "open"
               THEN [op |-> "drag", phase |-> "ended", n |-> last.n,
                     pre |-> last.pre, h0 |-> last.h0, i0 |-> last.i0,
                     post |-> getActiveBoxes(StoreState)]
               ELSE NoDrag

\* undo() after the drag
BatchUndo ==
    /\ Dispatch([type |-> "UNDO"], MaxDrag)
    /\ last' = IF last.op = "drag" /\ last.phase = "ended"
               THEN [last EXCEPT !.phase = "undone"]
               ELSE NoDrag

\* redo()
BatchRedo ==
    /\ Dispatch([type |-> "REDO"], MaxDrag)
    /\ last' = NoDrag

NextBatch ==
    \/ BatchStart
    \/ \E id \in ActiveIds, position \in DragTargets : BatchUpdate(id, position)
    \/ BatchEnd
    \/ BatchUndo
    \/ BatchRedo

SpecBatch == InitBatch /\ [][NextBatch]_vars

\* the history a committed batch leaves: the entries up to the pointer, the
\* pointer's entry replaced by the pre-batch boxes, the new boxes appended
Committed(h0, i0, pre, post) ==
    capHistory(SubSeq(h0, 1, i0) \o <<pre, post>>)

\* while the batch is open the UPDATE_BOX dispatches record nothing
DragOpenProps ==
    /\ history = last.h0
    /\ historyIndex = last.i0
    /\ historyBatchAnchor = <<last.pre>>

\* HISTORY_BATCH_END commits one snapshot iff the boxes changed, and clears
\* the anchor
DragEndedProps ==
    /\ historyBatchAnchor = <<>>
    /\ IF last.post # last.pre
       THEN /\ history = Committed(last.h0, last.i0, last.pre, last.post)
            /\ historyIndex = Len(history) - 1
       ELSE /\ history = last.h0
            /\ historyIndex = last.i0

\* C18 (as stated): after HISTORY_BATCH_START, UPDATE_BOX dispatches and
\* HISTORY_BATCH_END, the updates recorded nothing, the batch committed one
\* snapshot iff the boxes changed, the anchor is cleared, and one UNDO restores
\* the pre-batch boxes.
C18_Original ==
    last.op = "drag" =>
        /\ last.phase = "open" => DragOpenProps
        /\ last.phase = "ended" => DragEndedProps
        /\ last.phase = "undone" => getActiveBoxes(StoreState) = last.pre

\* C18 (amended): as C18, but one UNDO restores the pre-batch boxes only when
\* the batch changed them; after a batch that changed nothing UNDO steps from the
\* untouched pointer to the snapshot before it, or does nothing at the oldest.
C18_OneDragOneUndo ==
    last.op = "drag" =>
        /\ last.phase = "open" => DragOpenProps
        /\ last.phase = "ended" => DragEndedProps
        /\ last.phase = "undone" =>
              getActiveBoxes(StoreState) =
                  IF last.post # last.pre THEN last.pre
                  ELSE IF last.i0 <= 0 THEN last.pre
                  ELSE last.h0[(last.i0 - 1) + 1]

C18_Witness ==
    /\ last.op = "drag" /\ last.phase = "undone"
    /\ last.n >= 1 /\ last.post # last.pre
    /\ getActiveBoxes(StoreState) = last.pre

-----------------------------------------------------------------------------
(* Undo and redo of one action; the size of the history *)

\* a box-mutating dispatch on a store with no batch open that changed the
\* active boxes from `before` to `after`
ChangedBoxes(op, before, after) ==
    /\ op \in BOX_MUTATING_ACTIONS
    /\ before.historyBatchAnchor = <<>>
    /\ getActiveBoxes(after) # getActiveBoxes(before)

\* C19: with no batch open, after one box-mutating action that changes the
\* boxes, one UNDO restores the active boxes to their value before the action
\* and a following REDO restores their value after it.
C19_UndoRedoOneAction ==
    /\ (/\ last.op = "UNDO"
        /\ last.prev.op # "none"
        /\ ChangedBoxes(last.prev.op, last.prev.before, last.before))
       => getActiveBoxes(StoreState) = getActiveBoxes(last.prev.before)
    /\ (/\ last.op = "REDO"
        /\ last.prev.op = "UNDO"
        /\ last.prev2.op # "none"
        /\ ChangedBoxes(last.prev2.op, last.prev2.before, last.prev.before))
       => getActiveBoxes(StoreState) = getActiveBoxes(last.prev.before)

\* the history is one snapshot longer or at its cap, the oldest dropped
DroppedOldest ==
    (/\ last.op \in BOX_MUTATING_ACTIONS
     /\ Len(last.before.history) = MAX_HISTORY
     /\ last.before.historyIndex = MAX_HISTORY - 1
     /\ history # last.before.history)
    => /\ Len(history) = MAX_HISTORY
       /\ SubSeq(history, 1, MAX_HISTORY - 2) =
              SubSeq(last.before.history, 2, MAX_HISTORY - 1)
       /\ history[MAX_HISTORY] = getActiveBoxes(StoreState)

-----------------------------------------------------------------------------
(* Creating boxes and editing their cut lists: the store with the cuts panel,
   and the MCP tools on the project file *)

MaxEdits == 3    \* panel operations and tool calls per behaviour

InitProject == InitStoreAt(InitialState)

\* the two uuid() values an operation may draw
NewId(k) == 2 * steps + 2 + k

\* a mutant of findBox: the last element is taken when none has the id
RECURSIVE findBox_OrLast(_, _)
findBox_OrLast(bs, id) ==
    IF bs = <<>> THEN <<>>
    ELSE IF Head(bs).id = id \/ Tail(bs) = <<>> THEN <<Head(bs)>>
    ELSE findBox_OrLast(Tail(bs), id)

\* the box with the given id, as a sequence of zero or one box
RECURSIVE findBox(_, _)
findBox(bs, id) ==
    IF bs = <<>> THEN <<>>
    ELSE IF Head(bs).id = id THEN <<Head(bs)>>
    ELSE findBox(Tail(bs), id)

\* what the last operation was and the boxes it created
Edited(op, created) == last' = [op |-> op, created |-> created]

\* addBox() of the store
CreateBox ==
    LET box == addBox(StoreState, NewId(0), NewId(1))
    IN  /\ DispatchAll(<<[type |-> "ADD_BOX", box |-> box],
                         [type |-> "SELECT_BOXES", ids |-> <<box.id>>]>>, MaxEdits)
        /\ UNCHANGED uiVars
        /\ Edited("addBox", <<box>>)

\* onUpdateCuts(cuts) of the properties panel: updateBox(selectedBox.id, { cuts })
onUpdateCuts(boxId, cuts) ==
    /\ Dispatch([type |-> "UPDATE_BOX", id |-> boxId, updates |-> [cuts |-> cuts]],
                MaxEdits)
    /\ Edited("panel", <<>>)

\* CutsSection addCut
PanelAddCut(box) ==
    onUpdateCuts(box.id,
        Append(box.cuts, [id |-> NewId(0), face |-> "left", angle |-> 45,
                          edge |-> "undefined", depth |-> <<>>]))

\* CutsSection updateCut(id, updates)
updateCut(cuts, id, updates) ==
    [i \in 1..Len(cuts) |->
        IF cuts[i].id = id THEN spread(cuts[i], updates) ELSE cuts[i]]

\* a face button: updateCut(cut.id, { face, edge: undefined })
PanelPickFace(box, cut, face) ==
    onUpdateCuts(box.id,
        updateCut(box.cuts, cut.id, [face |-> face, edge |-> "undefined"]))

\* an edge button, one per entry of FACE_EDGES[cut.face]: updateCut(cut.id, { edge })
PanelPickEdge(box, cut, i) ==
    onUpdateCuts(box.id,
        updateCut(box.cuts, cut.id, [edge |-> FACE_EDGES[cut.face][i]]))

\* the angle input and the angle presets: updateCut(cut.id, { angle })
PanelSetAngle(box, cut, angle) ==
    onUpdateCuts(box.id, updateCut(box.cuts, cut.id, [angle |-> angle]))

\* CutsSection removeCut(id)
PanelRemoveCut(box, cut) ==
    onUpdateCuts(box.id, withoutBox(box.cuts, cut.id))

\* the box add_box and bulk_add_boxes build from a box definition; it has no
\* cuts field, which reads as an empty list of cuts
mcpBox(def, id) ==
    [id |-> id,
     position |-> Vec(def.x, def.y, def.z),
     dimensions |-> [width |-> def.width, height |-> def.height, depth |-> def.depth],
     rotation |-> Vec(0, 0, 0),
     cuts |-> <<>>]

\* a tool call returns: the ids it was given (<<>> for none), the boxes it
\* created, the boxes of the file after it, whether it called saveFile and
\* whether its result has isError
McpReturns(op, args, created, newBoxes, saved, isError) ==
    /\ steps < MaxEdits
    /\ steps' = steps + 1
    /\ fileBoxes' = newBoxes
    /\ last' = [op |-> op, created |-> created, args |-> args, before |-> fileBoxes,
                saved |-> saved, isError |-> isError]
    /\ UNCHANGED <<boxes, mode, currentTemplate, history, historyIndex,
                   historyBatchAnchor, rotSet, boxes0, algIn, algOut, cutIn, cutOut>>
    /\ UNCHANGED <<selectedBoxIds, uiVars>>

\* a tool call that writes the project file
McpSaves(op, args, created, newBoxes) ==
    McpReturns(op, args, created, newBoxes, TRUE, FALSE)

\* a tool call that returns isError and writes nothing
McpError(op, args) == McpReturns(op, args, <<>>, fileBoxes, FALSE, TRUE)

\* the ids given to a tool
McpIds(boxId, cutId) == [boxId |-> boxId, cutId |-> cutId]

\* the MCP tool get_box; id and label are <<>> when omitted; a box of the
\* file has no label unless add_box was given one
get_box(id, label) ==
    LET box == IF id # <<>> THEN findBox(fileBoxes, id[1])
               ELSE IF label = <<>> THEN SubSeq(fileBoxes, 1, Min2(1, Len(fileBoxes)))
               ELSE <<>>
    IN  IF box = <<>> THEN McpError("get_box", McpIds(id, <<>>))
        ELSE McpReturns("get_box", McpIds(id, <<>>), <<>>, fileBoxes, FALSE, FALSE)

\* the MCP tool update_box; width and x are <<>> when omitted
update_box(id, width, x) ==
    LET box == findBox(fileBoxes, id)
    IN  IF box = <<>> THEN McpError("update_box", McpIds(<<id>>, <<>>))
        ELSE McpSaves("update_box", McpIds(<<id>>, <<>>), <<>>,
                 [i \in 1..Len(fileBoxes) |->
                     IF fileBoxes[i].id # id THEN fileBoxes[i]
                     ELSE [fileBoxes[i] EXCEPT
                             !.dimensions.width = IF width # <<>> THEN width[1] ELSE @,
                             !.position.x = IF x # <<>> THEN x[1] ELSE @]])

\* findIndex((b) => b.id === id), 0 for -1
findIndex(bs, id) ==
    IF \E i \in 1..Len(bs) : bs[i].id = id
    THEN CHOOSE i \in 1..Len(bs) : bs[i].id = id /\ \A j \in 1..(i - 1) : bs[j].id # id
    ELSE 0

\* the MCP tool delete_box
delete_box(id) ==
    LET index == findIndex(fileBoxes, id)
    IN  IF index = 0 THEN McpError("delete_box", McpIds(<<id>>, <<>>))
        ELSE McpSaves("delete_box", McpIds(<<id>>, <<>>), <<>>,
                 SubSeq(fileBoxes, 1, index - 1)
                     \o SubSeq(fileBoxes, index + 1, Len(fileBoxes)))

\* the MCP tool add_box
add_box(def) ==
    LET newBox == mcpBox(def, NewId(0))
    IN  McpSaves("add_box", McpIds(<<>>, <<>>), <<newBox>>, Append(fileBoxes, newBox))

\* the MCP tool bulk_add_boxes
bulk_add_boxes(defs) ==
    LET newBoxes == [i \in 1..Len(defs) |-> mcpBox(defs[i], NewId(i - 1))]
    IN  McpSaves("bulk_add_boxes", McpIds(<<>>, <<>>), newBoxes, fileBoxes \o newBoxes)

\* the file's boxes with the cuts of box boxId replaced
withCuts(bs, boxId, cuts) ==
    [i \in 1..Len(bs) |-> IF bs[i].id = boxId THEN [bs[i] EXCEPT !.cuts = cuts] ELSE bs[i]]

\* the MCP tool add_cut; edge is "undefined" and depth <<>> when omitted
add_cut(boxId, face, angle, edge, depth) ==
    LET box == findBox(fileBoxes, boxId)
    IN  IF box = <<>> THEN McpError("add_cut", McpIds(<<boxId>>, <<>>))
        ELSE LET cut == [id |-> NewId(0), face |-> face, angle |-> angle,
                         edge |-> edge, depth |-> depth]
             IN  McpSaves("add_cut", McpIds(<<boxId>>, <<>>), <<>>,
                          withCuts(fileBoxes, boxId, Append(box[1].cuts, cut)))

\* the MCP tool update_cut; an omitted face or edge is "undefined", an omitted
\* angle or depth <<>>
update_cut(boxId, cutId, face, angle, edge, depth) ==
    LET box == findBox(fileBoxes, boxId)
    IN  IF box = <<>> THEN McpError("update_cut", McpIds(<<boxId>>, <<cutId>>))
        ELSE IF findBox(box[1].cuts, cutId) = <<>> THEN McpError("update_cut", McpIds(<<boxId>>, <<cutId>>))
        ELSE LET cut == findBox(box[1].cuts, cutId)[1]
                 updated ==
                     [id |-> cut.id,
                      face |-> IF face # "undefined" THEN face ELSE cut.face,
                      angle |-> IF angle # <<>> THEN angle[1] ELSE cut.angle,
                      edge |-> IF edge # "undefined" THEN edge ELSE cut.edge,
                      depth |-> IF depth # <<>> THEN depth ELSE cut.depth]
             IN  McpSaves("update_cut", McpIds(<<boxId>>, <<cutId>>), <<>>,
                          withCuts(fileBoxes, boxId,
                                   [i \in 1..Len(box[1].cuts) |->
                                       IF box[1].cuts[i].id = cutId THEN updated
                                       ELSE box[1].cuts[i]]))

\* the MCP tool remove_cut
remove_cut(boxId, cutId) ==
    LET box == findBox(fileBoxes, boxId)
    IN  IF box = <<>> THEN McpError("remove_cut", McpIds(<<boxId>>, <<cutId>>))
        ELSE IF findBox(box[1].cuts, cutId) = <<>> THEN McpError("remove_cut", McpIds(<<boxId>>, <<cutId>>))
        ELSE McpSaves("remove_cut", McpIds(<<boxId>>, <<cutId>>), <<>>,
                      withCuts(fileBoxes, boxId, withoutBox(box[1].cuts, cutId)))

\* the members of a sequence
Members(seq) == {seq[i] : i \in 1..Len(seq)}

\* box definitions given to the tools
McpDefs ==
    {[width |-> Cell, height |-> Cell, depth |-> 2 * Cell, x |-> x, y |-> 0, z |-> 0] :
        x \in {0, 2 * Cell}}

\* box ids given to the tools: those of the file, and one that is in no file
McpBoxIds == IdsOf(fileBoxes) \cup {0}

\* faces, edges, angles and depths given to add_cut and update_cut
McpFaces == {"top", "front", "left"}
McpEdges == {"top", "front"}
McpAngles == {0, 45}
McpDepths == {<<>>, <<Cell \div 2>>}

NextProject ==
    \/ CreateBox
    \/ \E box \in Members(boxes) : PanelAddCut(box)
    \/ \E box \in Members(boxes) : \E cut \in Members(box.cuts) :
          \/ \E face \in CutFaces : PanelPickFace(box, cut, face)
          \/ \E i \in 1..2 : PanelPickEdge(box, cut, i)
          \/ \E angle \in McpAngles : PanelSetAngle(box, cut, angle)
          \/ PanelRemoveCut(box, cut)
    \/ \E def \in McpDefs : add_box(def)
    \/ \E d1 \in McpDefs, d2 \in McpDefs : bulk_add_boxes(<<d1, d2>>)
    \/ \E boxId \in McpBoxIds, face \in McpFaces, edge \in McpEdges \cup {"undefined"},
          depth \in McpDepths :
          add_cut(boxId, face, 45, edge, depth)
    \/ \E boxId \in McpBoxIds : \E cutId \in {0} \cup
              UNION {IdsOf(b.cuts) : b \in Members(fileBoxes)} :
          \/ \E face \in McpFaces \cup {"undefined"}, edge \in McpEdges \cup {"undefined"} :
                update_cut(boxId, cutId, face, <<>>, edge, <<>>)
          \/ \E angle \in McpAngles, depth \in McpDepths :
                update_cut(boxId, cutId, "undefined", <<angle>>, "undefined", depth)
          \/ remove_cut(boxId, cutId)
    \/ \E id \in {<<>>} \cup {<<i>> : i \in McpBoxIds}, label \in {<<>>, <<"shelf">>} :
          get_box(id, label)
    \/ \E id \in McpBoxIds, width \in {<<>>, <<2 * Cell>>}, x \in {<<>>, <<Cell>>} :
          update_box(id, width, x)
    \/ \E id \in McpBoxIds : delete_box(id)

SpecProject == InitProject /\ [][NextProject]_vars

\* every box of the store and of the project file
AllBoxes ==
    Members(boxes) \cup Members(fileBoxes)
        \cup (IF currentTemplate = <<>> THEN {} ELSE Members(currentTemplate[1]))

\* C16: in every reachable state each stored cut's edge is absent or one of the
\* two entry edges FACE_EDGES[face] of the cut's face.
C16_EdgePermitted ==
    \A box \in AllBoxes : \A cut \in Members(box.cuts) :
        cut.edge = "undefined" \/ cut.edge \in Members(FACE_EDGES[cut.face])

\* C17: every operation that creates a box (addBox, add_box, bulk_add_boxes)
\* creates it with rotation (0,0,0) and with zero cuts.
C17_CreatedBare ==
    last.op \in {"addBox", "add_box", "bulk_add_boxes"} =>
        \A box \in Members(last.created) :
            /\ box.rotation = Vec(0, 0, 0)
            /\ Len(box.cuts) = 0

-----------------------------------------------------------------------------
(* A new action after an undo *)

\* the last dispatch went through the push of projectReducerWithHistory
Recorded ==
    /\ last.op \in BOX_MUTATING_ACTIONS
    /\ ~(last.before.historyBatchAnchor # <<>> /\ last.op = "UPDATE_BOX")
    /\ newBoxesArray(last.before, last.action)

\* C21: after a box-mutating action that records a snapshot, also one
\* dispatched after UNDOs, historyIndex is the last index of history, the
\* snapshots that were ahead of the index are gone, and REDO changes nothing.
C21_RedoCleared ==
    Recorded =>
        /\ historyIndex = Len(history) - 1
        /\ history = capHistory(Append(SubSeq(last.before.history, 1,
                                              last.before.historyIndex + 1),
                                       getActiveBoxes(StoreState)))
        /\ projectReducerWithHistory(StoreState, [type |-> "REDO"]) = StoreState

C21_Witness ==
    /\ Recorded
    /\ last.prev.op = "UNDO"
    /\ last.before.historyIndex < Len(last.before.history) - 1
    /\ Len(history) = last.before.historyIndex + 2
    /\ historyIndex = Len(history) - 1

-----------------------------------------------------------------------------
(* Box-mutating actions that change nothing *)

\* C24: a box-mutating action that leaves the active boxes equal in value to
\* what they were leaves history and historyIndex unchanged.
C24_NoChangeNoSnapshot ==
    (/\ last.op \in BOX_MUTATING_ACTIONS
     /\ getActiveBoxes(StoreState) = getActiveBoxes(last.before))
    => /\ history = last.before.history
       /\ historyIndex = last.before.historyIndex

-----------------------------------------------------------------------------
(* UNDO and REDO step through the history *)

\* the store `after` is `before` with the pointer moved to index i: the active
\* boxes are history[i], the selection is empty, nothing else differs
MovedTo(before, after, i) ==
    after = [setActiveBoxes(before, before.history[i + 1])
                EXCEPT !.historyIndex = i, !.selectedBoxIds = <<>>]

\* C26: UNDO and REDO never modify history; UNDO at index 0 and REDO at the
\* last index change nothing; otherwise they set the active boxes to
\* history[historyIndex - 1] or history[historyIndex + 1], move historyIndex by
\* one and clear the selection.
C26_UndoRedoStep ==
    /\ last.op \in {"UNDO", "REDO"} => history = last.before.history
    /\ last.op = "UNDO" =>
          IF last.before.historyIndex = 0 THEN StoreState = last.before
          ELSE /\ MovedTo(last.before, StoreState, last.before.historyIndex - 1)
               /\ getActiveBoxes(StoreState) = history[historyIndex + 1]
               /\ selectedBoxIds = <<>>
    /\ last.op = "REDO" =>
          IF last.before.historyIndex = Len(last.before.history) - 1
          THEN StoreState = last.before
          ELSE /\ MovedTo(last.before, StoreState, last.before.historyIndex + 1)
               /\ getActiveBoxes(StoreState) = history[historyIndex + 1]
               /\ selectedBoxIds = <<>>

C26_Witness ==
    /\ last.op = "REDO"
    /\ last.prev.op = "UNDO"
    /\ last.prev.before.selectedBoxIds # <<>>
    /\ last.prev.before.historyIndex > 0
    /\ historyIndex = last.before.historyIndex + 1
    /\ Len(history) > 1

-----------------------------------------------------------------------------
(* What ROTATE_SELECTED leaves alone *)

\* the indices of the boxes that are listed in ids and unlocked
RotateTargets(bs, ids) == {i \in 1..Len(bs) : bs[i].id \in ids /\ ~bs[i].locked}

\* C25: ROTATE_SELECTED changes only the position and rotation of the boxes
\* that are listed in ids and unlocked; every other box and every other field
\* is unchanged; with no such box the whole state, history included, is unchanged.
C25_RotateFrame ==
    last.op = "ROTATE_SELECTED" =>
        LET bs0 == getActiveBoxes(last.before)
            bs1 == getActiveBoxes(StoreState)
            targets == RotateTargets(bs0, last.action.ids)
        IN  IF targets = {} THEN StoreState = last.before
            ELSE /\ Len(bs1) = Len(bs0)
                 /\ \A i \in 1..Len(bs0) :
                       IF i \in targets
                       THEN bs1[i] = [bs0[i] EXCEPT !.position = bs1[i].position,
                                                    !.rotation = bs1[i].rotation]
                       ELSE bs1[i] = bs0[i]
                 /\ [StoreState EXCEPT !.history = last.before.history,
                                       !.historyIndex = last.before.historyIndex]
                       = setActiveBoxes(last.before, bs1)

C25_Witness ==
    /\ last.op = "ROTATE_SELECTED"
    /\ \E i \in 1..Len(getActiveBoxes(last.before)) :
          /\ getActiveBoxes(last.before)[i].locked
          /\ getActiveBoxes(last.before)[i].id \in last.action.ids
    /\ \E i \in 1..Len(getActiveBoxes(last.before)) :
          getActiveBoxes(last.before)[i].id \notin last.action.ids
    /\ RotateTargets(getActiveBoxes(last.before), last.action.ids) # {}
    /\ getActiveBoxes(StoreState) # getActiveBoxes(last.before)

-----------------------------------------------------------------------------
(* The history pointer and the selection against the active boxes *)

\* C28: in every reachable state with no batch open, the active boxes are
\* equal to history[historyIndex].
C28_PointerIsActive ==
    historyBatchAnchor = <<>> =>
        getActiveBoxes(StoreState) = history[historyIndex + 1]

\* C29: in every reachable state each id in selectedBoxIds is the id of a box
\* of the active box collection.
C29_SelectionExists ==
    \A id \in Members(selectedBoxIds) : id \in ActiveIds

-----------------------------------------------------------------------------
(* Tool calls that name a box or a cut that does not exist *)

McpIdTools == {"get_box", "update_box", "delete_box", "add_cut", "update_cut",
               "remove_cut"}

\* the last tool call named a box id that is in no box of the file, or a cut
\* id that is in no cut of the named box
NamedMissing ==
    /\ last.op \in McpIdTools
    /\ last.args.boxId # <<>>
    /\ \/ last.args.boxId[1] \notin IdsOf(last.before)
       \/ /\ last.args.cutId # <<>>
          /\ \A i \in 1..Len(last.before) :
                last.before[i].id = last.args.boxId[1] =>
                    last.args.cutId[1] \notin IdsOf(last.before[i].cuts)

\* C27: every MCP tool call that names a box id or cut id that does not exist
\* returns isError = true and does not write the project file, which is
\* unchanged by the call.
C27_MissingIsError ==
    NamedMissing => /\ last.isError
                    /\ ~last.saved
                    /\ fileBoxes = last.before

C27_Witness ==
    /\ NamedMissing
    /\ last.op = "update_cut"
    /\ \E i \in 1..Len(fileBoxes) :
          /\ fileBoxes[i].id = last.args.boxId[1]
          /\ fileBoxes[i].cuts # <<>>
    /\ last.isError

-----------------------------------------------------------------------------
(* The editor: the viewport's drag, the properties panel, the keyboard and the
   interaction modes, on a loaded project of three boxes *)

MaxUi == 3       \* user operations per behaviour of the editor

\* box.groupId, 0 for undefined
groupIdOf(box) == IF "groupId" \in DOMAIN box THEN box.groupId ELSE 0

\* a box of the loaded project: as addBox() builds and places the boxes, one
\* after the other, then grouped and locked or not
ProjectBox(id, groupId, locked) ==
    LET box == [addBox(InitialState, id, id) EXCEPT
                   !.position = Vec((id - 1) * (Cell + Cell \div 4), 0, 0),
                   !.locked = locked]
    IN  IF groupId # 0 THEN spread(box, [groupId |-> groupId]) ELSE box

\* the store after SET_PROJECT of a project of three boxes, those of grouped
\* in one group and those of locked locked, and a marquee selection
LoadedProject(grouped, locked, selection) ==
    LET bs == [id \in 1..3 |->
                  ProjectBox(id, IF id \in grouped THEN 7 ELSE 0, id \in locked)]
    IN  [boxes |-> bs, selectedBoxIds |-> selection, mode |-> "project",
         currentTemplate |-> <<>>, history |-> <<bs>>, historyIndex |-> 0,
         historyBatchAnchor |-> <<>>]

AppStarts ==
    {LoadedProject(grouped, locked, selection) :
        grouped \in {{1, 2}, {1, 2, 3}},
        locked \in {{}, {3}, {1, 2, 3}},
        selection \in {<<>>, <<3>>, <<1, 3>>}}

InitApp == \E state \in AppStarts : InitStoreAt(state)

\* the boxes when the pointer last went down on a box (history variable)
DownBoxes == IF "down" \in DOMAIN last THEN last.down ELSE <<>>

\* what the last user operation was, the store and the modes it met
Did(op) ==
    last' = [op |-> op, before |-> StoreState, down |-> DownBoxes,
             modes |-> <<isMeasuring, isWallMode, isMiterMode>>]

dragVars == <<isDragging, dragBoxId, dragStartPositions, dragView, pointerRefs>>

modeVars == <<isMeasuring, isWallMode, isMiterMode, wallTargetFace>>

\* a handler that dispatches nothing that changes the boxes or the selection
NoDispatch ==
    /\ steps < MaxUi
    /\ steps' = steps + 1
    /\ UNCHANGED <<boxes, mode, currentTemplate, history, historyIndex,
                   historyBatchAnchor, selectedBoxIds>>
    /\ UNCHANGED <<rotSet, boxes0, algIn, algOut, cutIn, cutOut, fileBoxes>>

\* state.selectedBoxIds.includes(id)
includes(ids, id) == \E i \in 1..Len(ids) : ids[i] = id

\* groupMemberIds of a Box3D
groupMemberIds(box, allBoxes) ==
    IF groupIdOf(box) # 0
    THEN LET members == SelectSeq(allBoxes, LAMBDA b : groupIdOf(b) = groupIdOf(box))
         IN  [i \in 1..Len(members) |-> members[i].id]
    ELSE <<box.id>>

\* the dispatches of the selection part of handlePointerDown
pointerDownSelects(box, shiftKey) ==
    LET ids == groupMemberIds(box, getActiveBoxes(StoreState))
    IN  IF shiftKey
        THEN IF groupIdOf(box) # 0
             THEN IF \A i \in 1..Len(ids) : includes(selectedBoxIds, ids[i])
                  THEN <<[type |-> "SELECT_BOXES",
                          ids |-> SelectSeq(selectedBoxIds,
                                            LAMBDA id : ~includes(ids, id))]>>
                  ELSE <<[type |-> "SELECT_BOXES",
                          ids |-> selectedBoxIds \o
                                  SelectSeq(ids, LAMBDA id :
                                                ~includes(selectedBoxIds, id))]>>
             ELSE <<[type |-> "TOGGLE_BOX_SELECTION", id |-> box.id]>>
        ELSE IF ~includes(selectedBoxIds, box.id)
        THEN <<[type |-> "SELECT_BOXES", ids |-> ids]>>
        ELSE <<>>

\* a mutant of dragStarts: the locked boxes are recorded as well
dragStarts_WithLocked(box, shiftKey, allBoxes) ==
    LET isSelected == includes(selectedBoxIds, box.id)
        activeSelectedIds == IF isSelected \/ ~shiftKey
                             THEN (IF isSelected THEN selectedBoxIds ELSE <<box.id>>)
                             ELSE selectedBoxIds
        allDragIds == activeSelectedIds \o
                      (IF groupIdOf(box) # 0 THEN groupMemberIds(box, allBoxes)
                       ELSE <<>>)
        dragged == SelectSeq(allBoxes, LAMBDA b : includes(allDragIds, b.id))
    IN  [i \in 1..Len(dragged) |->
            [id |-> dragged[i].id, position |-> dragged[i].position]]

\* dragStartPositions of handlePointerDown: the positions of the selected
\* boxes and of the group members that are not locked; the selection is the
\* one of the render before the click
dragStarts(box, shiftKey, allBoxes) ==
    LET isSelected == includes(selectedBoxIds, box.id)
        activeSelectedIds == IF isSelected \/ ~shiftKey
                             THEN (IF isSelected THEN selectedBoxIds ELSE <<box.id>>)
                             ELSE selectedBoxIds
        allDragIds == activeSelectedIds \o
                      (IF groupIdOf(box) # 0 THEN groupMemberIds(box, allBoxes)
                       ELSE <<>>)
        dragged == SelectSeq(allBoxes,
                             LAMBDA b : includes(allDragIds, b.id) /\ ~b.locked)
    IN  [i \in 1..Len(dragged) |->
            [id |-> dragged[i].id, position |-> dragged[i].position]]

\* Box3D handlePointerDown on a box, in a camera view with the given fixed
\* axis; the ray of the pointer meets the drag plane
PointerDown(box, shiftKey, fixedAxis) ==
    /\ ~isMeasuring
    /\ ~isWallMode
    /\ dragBoxId = 0
    /\ IF box.locked
       THEN /\ DispatchAll(pointerDownSelects(box, shiftKey), MaxUi)
            /\ UNCHANGED <<isDragging, dragStartPositions, dragView>>
       ELSE /\ DispatchAll(pointerDownSelects(box, shiftKey)
                               \o <<[type |-> "HISTORY_BATCH_START"]>>, MaxUi)
            /\ isDragging' = TRUE
            /\ dragStartPositions' =
                   dragStarts(box, shiftKey, getActiveBoxes(StoreState))
            /\ dragView' = fixedAxis
    /\ dragBoxId' = box.id
    /\ pointerRefs' = [didDrag |-> FALSE,
                       wasMultiSelected |-> includes(selectedBoxIds, box.id)
                                               /\ Len(selectedBoxIds) > 1,
                       pointerDownShift |-> shiftKey]
    /\ UNCHANGED modeVars
    /\ last' = [op |-> "pointerDown", before |-> StoreState,
                down |-> getActiveBoxes(StoreState),
                modes |-> <<isMeasuring, isWallMode, isMiterMode>>]

\* the Box3D of the box the pointer went down on, while it is mounted
DownBox == findBox(getActiveBoxes(StoreState), dragBoxId)

\* the updates of handlePointerMove for the snapped point of the pointer
dragUpdates(box, point) ==
    LET newPos == [point EXCEPT ![dragView] = box.position[dragView]]
        starts == dragStartPositions
        draggedStartPos == SelectSeq(starts, LAMBDA e : e.id = box.id)
        isMultiDrag == Len(starts) > 1 /\ draggedStartPos # <<>>
        delta == [Vec(newPos.x - draggedStartPos[1].position.x,
                      newPos.y - draggedStartPos[1].position.y,
                      newPos.z - draggedStartPos[1].position.z)
                     EXCEPT ![dragView] = 0]
    IN  IF isMultiDrag
        THEN [i \in 1..Len(starts) |->
                 [type |-> "UPDATE_BOX", id |-> starts[i].id,
                  updates |-> [position |->
                                  Vec(starts[i].position.x + delta.x,
                                      starts[i].position.y + delta.y,
                                      starts[i].position.z + delta.z)]]]
        ELSE <<[type |-> "UPDATE_BOX", id |-> box.id,
                updates |-> [position |-> newPos]]>>

\* Box3D handlePointerMove, then Viewport handleMove or handleMoveSelected
PointerMove(point) ==
    /\ isDragging
    /\ DownBox # <<>>
    /\ \E updates \in {dragUpdates(DownBox[1], point)} : DispatchAll(updates, MaxUi)
    /\ pointerRefs' = [pointerRefs EXCEPT !.didDrag = TRUE]
    /\ UNCHANGED <<isDragging, dragBoxId, dragStartPositions, dragView>>
    /\ UNCHANGED modeVars
    /\ Did("pointerMove")

\* Box3D handlePointerUp; the state of a Box3D that was unmounted is gone
PointerUp ==
    /\ dragBoxId # 0
    /\ IF DownBox = <<>>
       THEN NoDispatch
       ELSE DispatchAll(
                (IF ~pointerRefs.didDrag /\ pointerRefs.wasMultiSelected
                       /\ ~pointerRefs.pointerDownShift
                 THEN <<[type |-> "SELECT_BOXES",
                         ids |-> groupMemberIds(DownBox[1],
                                                getActiveBoxes(StoreState))]>>
                 ELSE <<>>)
                \o (IF isDragging THEN <<[type |-> "HISTORY_BATCH_END"]>> ELSE <<>>),
                MaxUi)
    /\ isDragging' = FALSE
    /\ dragBoxId' = 0
    /\ UNCHANGED <<dragStartPositions, dragView, pointerRefs>>
    /\ UNCHANGED modeVars
    /\ Did("pointerUp")

\* deleteSelectedBoxes() of the store: the dispatches that are not toasts
deleteSelectedBoxes ==
    LET selectedBoxes == SelectSeq(getActiveBoxes(StoreState),
                                   LAMBDA b : includes(selectedBoxIds, b.id))
        unlocked == SelectSeq(selectedBoxes, LAMBDA b : ~b.locked)
    IN  IF Len(selectedBoxIds) = 0 \/ Len(unlocked) = 0 THEN <<>>
        ELSE <<[type |-> "DELETE_SELECTED_BOXES", ids |-> IdsOf(unlocked)]>>

\* a mutant of setIsWallMode's updater: the other modes are left on
ToggleWallMode_Keep ==
    /\ isWallMode' = ~isWallMode
    /\ wallTargetFace' = <<>>
    /\ UNCHANGED <<isMeasuring, isMiterMode>>

\* setIsMeasuring((v) => ...) of the M key and of onToggleMeasure
ToggleMeasure ==
    /\ isMeasuring' = ~isMeasuring
    /\ IF ~isMeasuring
       THEN isWallMode' = FALSE /\ wallTargetFace' = <<>> /\ isMiterMode' = FALSE
       ELSE UNCHANGED <<isWallMode, wallTargetFace, isMiterMode>>

\* setIsWallMode((v) => ...) of the W key and of onToggleWallMode
ToggleWallMode ==
    /\ isWallMode' = ~isWallMode
    /\ wallTargetFace' = IF ~isWallMode THEN wallTargetFace ELSE <<>>
    /\ IF ~isWallMode
       THEN isMeasuring' = FALSE /\ isMiterMode' = FALSE
       ELSE UNCHANGED <<isMeasuring, isMiterMode>>

\* setIsMiterMode((v) => ...) of the B key and of onToggleMiterMode
ToggleMiterMode ==
    /\ isMiterMode' = ~isMiterMode
    /\ IF ~isMiterMode
       THEN isMeasuring' = FALSE /\ isWallMode' = FALSE /\ wallTargetFace' = <<>>
       ELSE UNCHANGED <<isMeasuring, isWallMode, wallTargetFace>>

\* App handleKeyDown for Delete (or Backspace), M, W, B and Escape
KeyDown(key) ==
    /\ IF key = "Delete"
       THEN /\ Len(selectedBoxIds) > 0
            /\ DispatchAll(deleteSelectedBoxes, MaxUi)
            /\ UNCHANGED modeVars
       ELSE /\ NoDispatch
            /\ CASE key = "m" -> ToggleMeasure
                 [] key = "w" -> ToggleWallMode
                 [] key = "b" -> ToggleMiterMode
                 [] key = "Escape" ->
                      /\ isMeasuring' = FALSE
                      /\ isWallMode' = FALSE
                      /\ isMiterMode' = FALSE
                      /\ wallTargetFace' = IF isWallMode THEN <<>> ELSE wallTargetFace
    /\ UNCHANGED dragVars
    /\ Did(IF key = "Delete" THEN "keyDelete" ELSE "keyMode")

\* a click outside the viewport's boxes: the pointer is not held on a box
Clicks == dragBoxId = 0

\* Toolbar onToggleMeasure
OnToggleMeasure ==
    Clicks /\ NoDispatch /\ ToggleMeasure /\ UNCHANGED dragVars /\ Did("toolbar")

\* Toolbar onToggleWallMode
OnToggleWallMode ==
    Clicks /\ NoDispatch /\ ToggleWallMode /\ UNCHANGED dragVars /\ Did("toolbar")

\* the properties panel is rendered: no wall panel, and a selection
PanelShown == Clicks /\ wallTargetFace = <<>> /\ Len(selectedBoxIds) > 0

\* PropertiesPanel onToggleMiterMode
OnToggleMiterMode ==
    PanelShown /\ NoDispatch /\ ToggleMiterMode /\ UNCHANGED dragVars /\ Did("panel")

\* getSelectedBox(): the box of selectedBoxIds[0]
getSelectedBox == findBox(getActiveBoxes(StoreState), selectedBoxIds[1])

\* the Three.js axis of a user-facing axis
internalAxis(userAxis) ==
    IF userAxis = "x" THEN "z" ELSE IF userAxis = "y" THEN "x" ELSE "y"

\* PropertiesPanel handleUserPositionChange: the panel of one selected box
PanelPosition(userAxis, value) ==
    /\ PanelShown
    /\ Len(selectedBoxIds) = 1
    /\ getSelectedBox # <<>>
    /\ LET selectedBox == getSelectedBox[1]
           axis == internalAxis(userAxis)
           delta == value - selectedBox.position[axis]
           hasGroupMembers == groupIdOf(selectedBox) # 0 /\ delta # 0
           others == SelectSeq(boxes, LAMBDA b :
                         groupIdOf(b) = groupIdOf(selectedBox) /\ b.id # selectedBox.id)
       IN  DispatchAll(
               (IF hasGroupMembers THEN <<[type |-> "HISTORY_BATCH_START"]>> ELSE <<>>)
               \o <<[type |-> "UPDATE_BOX", id |-> selectedBox.id,
                     updates |-> [position |->
                                     [selectedBox.position EXCEPT ![axis] = value]]]>>
               \o (IF hasGroupMembers
                   THEN [i \in 1..Len(others) |->
                            [type |-> "UPDATE_BOX", id |-> others[i].id,
                             updates |-> [position |->
                                 [others[i].position EXCEPT ![axis] = @ + delta]]]]
                        \o <<[type |-> "HISTORY_BATCH_END"]>>
                   ELSE <<>>),
               MaxUi)
    /\ UNCHANGED uiVars
    /\ Did("panelPosition")

RECURSIVE minPosition(_, _)
\* the loop over selectedBoxesArr: Math.min from Infinity
minPosition(bs, axis) ==
    IF Len(bs) = 1 THEN bs[1].position[axis]
    ELSE Min2(bs[1].position[axis], minPosition(Tail(bs), axis))

\* PropertiesPanel handleGroupPositionChange: the panel of a multi-selection
PanelGroupPosition(userAxis, value) ==
    /\ PanelShown
    /\ Len(selectedBoxIds) > 1
    /\ LET selectedBoxesArr == SelectSeq(getActiveBoxes(StoreState),
                                         LAMBDA b : includes(selectedBoxIds, b.id))
           axis == internalAxis(userAxis)
       IN  /\ selectedBoxesArr # <<>>
           /\ \E delta \in {value - minPosition(selectedBoxesArr, axis)} :
                 DispatchAll(
                     IF delta = 0 THEN <<>>
                     ELSE <<[type |-> "HISTORY_BATCH_START"]>>
                          \o [i \in 1..Len(selectedBoxesArr) |->
                                 [type |-> "UPDATE_BOX", id |-> selectedBoxesArr[i].id,
                                  updates |-> [position |->
                                      [selectedBoxesArr[i].position
                                          EXCEPT ![axis] = @ + delta]]]]
                          \o <<[type |-> "HISTORY_BATCH_END"]>>,
                     MaxUi)
    /\ UNCHANGED uiVars
    /\ Did("panelGroupPosition")

\* the Delete Box button: deleteBox(selectedBox.id)
PanelDeleteBox ==
    /\ PanelShown
    /\ Len(selectedBoxIds) = 1
    /\ getSelectedBox # <<>>
    /\ DispatchAll(<<[type |-> "DELETE_BOX", id |-> getSelectedBox[1].id]>>, MaxUi)
    /\ UNCHANGED uiVars
    /\ Did("panelDeleteBox")

\* the Delete All button of a multi-selection: deleteSelectedBoxes()
PanelDeleteAll ==
    /\ PanelShown
    /\ Len(selectedBoxIds) > 1
    /\ DispatchAll(deleteSelectedBoxes, MaxUi)
    /\ UNCHANGED uiVars
    /\ Did("panelDeleteAll")

\* Box3D onClick in wall mode, then App handleWallFaceSelect: the target
\* face, as the id of its source box
WallFaceSelect(box) ==
    /\ Clicks
    /\ isWallMode
    /\ NoDispatch
    /\ wallTargetFace' = <<box.id>>
    /\ UNCHANGED <<isMeasuring, isWallMode, isMiterMode>>
    /\ UNCHANGED dragVars
    /\ Did("wallFace")

\* the boxes of generateStudWall, reduced to one plate on the source box
studWall(source) ==
    <<spread([source EXCEPT !.id = 10 + steps, !.cuts = <<>>, !.locked = FALSE],
             [groupId |-> 10 + steps])>>

\* App handleGenerateStuds, the Generate button of the wall panel
GenerateStuds ==
    /\ Clicks
    /\ wallTargetFace # <<>>
    /\ findBox(getActiveBoxes(StoreState), wallTargetFace[1]) # <<>>
    /\ DispatchAll(
           <<[type |-> "ADD_BOXES",
              boxes |-> studWall(findBox(getActiveBoxes(StoreState),
                                         wallTargetFace[1])[1])],
             [type |-> "DELETE_BOX", id |-> wallTargetFace[1]]>>, MaxUi)
    /\ wallTargetFace' = <<>>
    /\ isWallMode' = FALSE
    /\ UNCHANGED <<isMeasuring, isMiterMode>>
    /\ UNCHANGED dragVars
    /\ Did("generateStuds")

\* App handleCancelWall, the Cancel button of the wall panel
CancelWall ==
    /\ Clicks
    /\ wallTargetFace # <<>>
    /\ NoDispatch
    /\ wallTargetFace' = <<>>
    /\ isWallMode' = FALSE
    /\ UNCHANGED <<isMeasuring, isMiterMode>>
    /\ UNCHANGED dragVars
    /\ Did("cancelWall")

\* the snapped points of the pointer, the camera views' fixed axes, the values
\* typed into a position field
DragPoints == {Vec(Cell, 0, Cell), Vec(2 * Cell, Cell, 0)}
FixedAxes == {"y", "z"}
PanelValues == {0, Cell}

NextApp ==
    \/ \E box \in Members(getActiveBoxes(StoreState)), shiftKey \in BOOLEAN,
          fixedAxis \in FixedAxes : PointerDown(box, shiftKey, fixedAxis)
    \/ \E point \in DragPoints : PointerMove(point)
    \/ PointerUp
    \/ \E key \in {"Delete", "m", "w", "b", "Escape"} : KeyDown(key)
    \/ OnToggleMeasure
    \/ OnToggleWallMode
    \/ OnToggleMiterMode
    \/ \E userAxis \in {"x", "z"}, value \in PanelValues : PanelPosition(userAxis, value)
    \/ \E userAxis \in {"x", "z"}, value \in PanelValues :
          PanelGroupPosition(userAxis, value)
    \/ PanelDeleteBox
    \/ PanelDeleteAll
    \/ \E box \in Members(getActiveBoxes(StoreState)) : WallFaceSelect(box)
    \/ GenerateStuds
    \/ CancelWall

SpecApp == InitApp /\ [][NextApp]_vars

-----------------------------------------------------------------------------
(* Locked boxes, group drags and the interaction modes *)

\* the user operations that move or delete boxes
MoveOrDelete == {"pointerMove", "keyDelete", "panelDeleteBox", "panelDeleteAll",
                 "panelPosition", "panelGroupPosition"}

\* C22: while a box is locked, no user operation (viewport drag, Delete or
\* Backspace, the Delete Box and Delete All buttons, properties-panel position
\* edits) changes its position or removes it from the box collection.
C22_LockedStays ==
    last.op \in MoveOrDelete =>
        \A b \in Members(getActiveBoxes(last.before)) :
            b.locked => \E c \in Members(getActiveBoxes(StoreState)) :
                            c.id = b.id /\ c.position = b.position

\* the position of the box with the id
positionOf(bs, id) == findBox(bs, id)[1].position

\* C23: after every pointer move of a drag on a grouped box, every unlocked
\* member of the group is displaced from its position at pointer down by the
\* same delta as the dragged box, and every locked member is where it was.
C23_GroupDelta ==
    (last.op = "pointerMove" /\ groupIdOf(DownBox[1]) # 0) =>
        \A m \in Members(last.down) :
            (groupIdOf(m) = groupIdOf(DownBox[1])
                /\ findBox(getActiveBoxes(StoreState), m.id) # <<>>) =>
                LET now == positionOf(getActiveBoxes(StoreState), m.id)
                    dragged == DownBox[1].position
                    draggedDown == positionOf(last.down, dragBoxId)
                IN  IF m.locked THEN now = m.position
                    ELSE /\ now.x - m.position.x = dragged.x - draggedDown.x
                         /\ now.y - m.position.y = dragged.y - draggedDown.y
                         /\ now.z - m.position.z = dragged.z - draggedDown.z

C23_Witness ==
    /\ last.op = "pointerMove"
    /\ groupIdOf(DownBox[1]) # 0
    /\ \E m \in Members(last.down) :
          groupIdOf(m) = groupIdOf(DownBox[1]) /\ m.locked
    /\ \E m \in Members(last.down) :
          /\ groupIdOf(m) = groupIdOf(DownBox[1]) /\ ~m.locked /\ m.id # dragBoxId
          /\ positionOf(getActiveBoxes(StoreState), m.id) # m.position
    /\ getActiveBoxes(last.before) # last.down
    /\ getActiveBoxes(StoreState) # getActiveBoxes(last.before)

\* C30: no two of isMeasuring, isWallMode and isMiterMode are true in the
\* same state.
C30_OneMode ==
    /\ ~(isMeasuring /\ isWallMode)
    /\ ~(isMeasuring /\ isMiterMode)
    /\ ~(isWallMode /\ isMiterMode)

C30_Witness ==
    /\ last.op \in {"keyMode", "toolbar", "panel"}
    /\ last.modes[3]
    /\ isWallMode
    /\ ~isMiterMode

=============================================================================
